---- MODULE Spec2Model ----
(***************************************************************************)
(* A model of the betting core of botBet: Kelly stake sizing               *)
(* (bankroll.py), the edge analysers (value_detector.py, main_engine.py),  *)
(* the rolling-window backtester (backtester.py), the auto-bet ledger      *)
(* life cycle (auto_bet_manager.py over database.py), the online learner   *)
(* with its snapshot file (rl_engine.py), the Monte Carlo simulator        *)
(* (simulator.py) and the Dixon-Coles outcome model (dixon_coles.py).      *)
(*                                                                         *)
(* Numbers.  The program computes in binary floating point.  Stake         *)
(* sizing, the edge analysers, the backtester, the ledger and the feature  *)
(* builders are modelled on IEEE 754 doubles (Float and the F64 operators  *)
(* below), with the round() of Python floats and of numpy.float64; their   *)
(* inputs are written as decimals,                                         *)
(*   odds           hundredths          (210    is 2.10)                   *)
(*   probabilities  ten-thousandths     (5500   is 0.55)                   *)
(* and denote the doubles nearest to them.  The simulator and the          *)
(* Dixon-Coles model compute exactly, on fractions, and round their        *)
(* results with RoundRatio.  The simulator's numbers in the model are      *)
(* binary fractions, on which the program's floating-point arithmetic is   *)
(* exact too; the Dixon-Coles values of the model do not sit on a rounding *)
(* tie, where the floating-point result would depend on representation     *)
(* error.                                                                  *)
(***************************************************************************)
EXTENDS Integers, Sequences, FiniteSets, TLC

VARIABLES
    k_bankroll, \* BankrollManager.bankroll
    k_call,     \* arguments of the last calculate_kelly_stake call
    k_ret,      \* what that call returned
    e_call,     \* predicted_probs and market_odds handed to the edge analysers
    e_edge,     \* what detect_edge returned for them
    e_val,      \* what analyze_bet returned for one of their outcomes
    bt_df,      \* the frame load_and_prep_data returns to the Backtester
    bt_self,    \* Backtester fields: bankroll_mgr.bankroll, ml.is_trained, ...
    bt_loc,     \* run_backtest's locals and its position in the loops
    bt_calls,   \* run_backtest calls made on the Backtester
    bt_kelly,   \* the last calculate_kelly_stake call run_backtest made
    bt_scored,  \* the predict_match calls run_backtest made
    bt_ret,     \* what the last run_backtest call returned
    p_game,     \* per game: what the provider reports of it
    built,      \* AutoBetManager objects built after the first ones
    db_matches, \* matches_historical, by game_id
    db_deep,    \* features_deep_data, by game_id
    db_bets,    \* bets_history, by bet_id
    m_pc,       \* per manager: the handler it is running
    m_loc,      \* per manager: the locals of that handler
    m_cache,    \* per manager: Scraper365.cache
    m_rl,       \* per manager: its RLEngine
    m_ret,      \* what the manager invocation that ended last returned
    fed,        \* the train_step calls made, with the bet each was for
    invocations, \* handler invocations started
    nn_inputs,  \* the feature vectors the managers handed to predict and train_step
    rl_eng,     \* one RLEngine: weights, optimizer, mode, history, memory
    rl_pc,      \* that engine's process: down, idle or inside save_model
    rl_file,    \* the file at RLEngine.MODEL_PATH
    rl_ret,     \* what the last call on the engine returned
    rl_calls,   \* calls made on the engine
    rl_seen,    \* what predict returned since the last training call
    mc_self,    \* ValueSimulator fields: bankroll_start, iterations
    mc_loc,     \* run_monte_carlo's locals and its position in the loops
    mc_ret,     \* what run_monte_carlo returned
    dc_self,    \* DixonColesModel fields: rho
    dc_call,    \* arguments of the calculate_match_probabilities call
    dc_ret      \* what that call returned

vars == <<k_bankroll, k_call, k_ret, e_call, e_edge, e_val,
          bt_df, bt_self, bt_loc, bt_calls, bt_kelly, bt_scored, bt_ret,
          p_game, built, db_matches, db_deep, db_bets, m_pc, m_loc, m_cache, m_rl, m_ret,
          fed, invocations, nn_inputs, rl_eng, rl_pc, rl_file, rl_ret, rl_calls, rl_seen,
          mc_self, mc_loc, mc_ret, dc_self, dc_call, dc_ret>>

KellyVars == <<k_bankroll, k_call, k_ret>>
EdgeVars  == <<e_call, e_edge, e_val>>
BtVars    == <<bt_df, bt_self, bt_loc, bt_calls, bt_kelly, bt_scored, bt_ret>>
LedgerVars == <<p_game, built, db_matches, db_deep, db_bets, m_pc, m_loc, m_cache, m_rl,
                m_ret, fed, invocations, nn_inputs>>
RlVars    == <<rl_eng, rl_pc, rl_file, rl_ret, rl_calls, rl_seen>>
McVars    == <<mc_self, mc_loc, mc_ret>>
DcVars    == <<dc_self, dc_call, dc_ret>>

\* what an action of one component leaves alone: every other component
KellyFrame  == UNCHANGED <<EdgeVars, BtVars, LedgerVars, RlVars, McVars, DcVars>>
EdgeFrame   == UNCHANGED <<KellyVars, BtVars, LedgerVars, RlVars, McVars, DcVars>>
BtFrame     == UNCHANGED <<KellyVars, EdgeVars, LedgerVars, RlVars, McVars, DcVars>>
LedgerFrame == UNCHANGED <<KellyVars, EdgeVars, BtVars, RlVars, McVars, DcVars>>
RlFrame     == UNCHANGED <<KellyVars, EdgeVars, BtVars, LedgerVars, McVars, DcVars>>
McFrame     == UNCHANGED <<KellyVars, EdgeVars, BtVars, LedgerVars, RlVars, DcVars>>
DcFrame     == UNCHANGED <<KellyVars, EdgeVars, BtVars, LedgerVars, RlVars, McVars>>

NoCall == [kind |-> "none"]

(***************************************************************************)
(* Arithmetic helpers                                                      *)
(***************************************************************************)

\* the exact ratio n/d to the nearest integer, ties to even (d > 0)
RoundRatio(n, d) ==
    LET q == n \div d
        r == n % d
    IN  IF 2 * r < d THEN q
        ELSE IF 2 * r > d THEN q + 1
        ELSE IF q % 2 = 0 THEN q ELSE q + 1

Max(a, b) == IF a >= b THEN a ELSE b
Min(a, b) == IF a <= b THEN a ELSE b

Abs(a) == IF a < 0 THEN -a ELSE a

RECURSIVE Gcd(_, _)
Gcd(a, b) == IF b = 0 THEN a ELSE Gcd(b, a % b)

\* An exact fraction num/den in lowest terms, den > 0.
Frac(n, d) ==
    LET g == Gcd(Abs(n), d)
    IN  [num |-> n \div g, den |-> d \div g]

FracMul(x, y) == Frac(x.num * y.num, x.den * y.den)
FracLeq(x, y) == x.num * y.den <= y.num * x.den

\* round(k * x) for an integer k >= 0 and a fraction x
MulRound(k, x) ==
    LET g == Gcd(k, x.den)
    IN  RoundRatio((k \div g) * x.num, x.den \div g)

OddsScale == 100
ProbScale == 10000

(***************************************************************************)
(* Natural numbers of any size: little-endian sequences of 15-bit limbs    *)
(* without leading zero limbs (zero is the empty sequence).  The           *)
(* operations are written place by place, with the carries looked ahead,   *)
(* so that their evaluation does not nest with the length of the number.   *)
(* A value that is read more than once is the argument of an operator, so  *)
(* that it is computed once.                                               *)
(***************************************************************************)
LimbBits == 3 * 5
LimbBase == 2 ^ LimbBits

NatLimb(a, i) == IF i >= 1 /\ i <= Len(a) THEN a[i] ELSE 0

MaxOf(S) == CHOOSE i \in S : \A j \in S : j <= i
MinOf(S) == CHOOSE i \in S : \A j \in S : i <= j

\* the highest place of a that is not zero, 0 if there is none
NatTop(a) == MaxOf({0} \cup {i \in 1 .. Len(a) : a[i] # 0})
NatTrim(a) == SubSeq(a, 1, NatTop(a))

\* 0 <= n < 2^31 as limbs, and back
NatOfInt(n) ==
    NatTrim(<< n % LimbBase, (n \div LimbBase) % LimbBase, n \div (LimbBase * LimbBase) >>)
IntOfNat(a) ==
    NatLimb(a, 1) + (LimbBase * NatLimb(a, 2)) + (LimbBase * LimbBase * NatLimb(a, 3))

\* the number whose place i holds s[i] <= 2 * LimbBase - 2: a place receives
\* a carry when a lower place overflows and every place between is full
NatCarry(s, i) ==
    IF \E j \in 1 .. (i - 1) :
            s[j] >= LimbBase /\ \A k \in (j + 1) .. (i - 1) : s[k] >= LimbBase - 1
    THEN 1 ELSE 0
NatResolve(s) ==
    NatTrim([i \in 1 .. (Len(s) + 1) |-> (NatLimb(s, i) + NatCarry(s, i)) % LimbBase])

\* the same for places holding s[i] < LimbBase^2: the high half of a place
\* moves one place up first
NatSplit(s) ==
    [i \in 1 .. (Len(s) + 1) |->
        (NatLimb(s, i) % LimbBase) + (NatLimb(s, i - 1) \div LimbBase)]

NatAdd(a, b) ==
    NatResolve([i \in 1 .. Max(Len(a), Len(b)) |-> NatLimb(a, i) + NatLimb(b, i)])

\* a - b for a >= b: a place lends when a lower place falls short and every
\* place between is level
NatBorrow(d, i) ==
    IF \E j \in 1 .. (i - 1) : d[j] < 0 /\ \A k \in (j + 1) .. (i - 1) : d[k] <= 0
    THEN 1 ELSE 0
NatLend(d) ==
    NatTrim([i \in 1 .. Len(d) |-> (d[i] - NatBorrow(d, i) + LimbBase) % LimbBase])
NatSub(a, b) == NatLend([i \in 1 .. Len(a) |-> a[i] - NatLimb(b, i)])

\* -1, 0, 1 as a < b, a = b, a > b
NatCmpAt(a, b, i) == IF i = 0 THEN 0 ELSE IF a[i] > b[i] THEN 1 ELSE -1
NatCmp(a, b) ==
    IF Len(a) # Len(b) THEN (IF Len(a) > Len(b) THEN 1 ELSE -1)
    ELSE NatCmpAt(a, b, MaxOf({0} \cup {i \in 1 .. Len(a) : a[i] # b[i]}))

\* a * k for 0 <= k < LimbBase
NatMulSmall(a, k) == NatResolve(NatSplit([i \in 1 .. Len(a) |-> a[i] * k]))

\* a * b for a of at most four limbs (a mantissa): place k collects the low
\* halves of the limb products a[i] * b[k + 1 - i] and the high halves of
\* the products one place below
NatMulTerm(a, b, i, k) ==
    ((NatLimb(a, i) * NatLimb(b, k + 1 - i)) % LimbBase)
        + ((NatLimb(a, i) * NatLimb(b, k - i)) \div LimbBase)
NatMul(a, b) ==
    NatResolve(NatSplit(
        [k \in 1 .. (Len(a) + Len(b)) |->
            NatMulTerm(a, b, 1, k) + NatMulTerm(a, b, 2, k)
                + NatMulTerm(a, b, 3, k) + NatMulTerm(a, b, 4, k)]))

\* a * 2^n and floor(a / 2^n) for n = q * LimbBits + log2(p), p < LimbBase
NatShlBy(a, q, p) ==
    NatTrim([i \in 1 .. (Len(a) + q + 1) |->
                ((NatLimb(a, i - q) * p) % LimbBase)
                    + ((NatLimb(a, i - q - 1) * p) \div LimbBase)])
NatShrBy(a, q, p) ==
    NatTrim([i \in 1 .. (Len(a) - q) |->
                (NatLimb(a, i + q) \div p)
                    + ((NatLimb(a, i + q + 1) % p) * (LimbBase \div p))])
NatShl(a, n) == NatShlBy(a, n \div LimbBits, 2 ^ (n % LimbBits))
NatShr(a, n) == NatShrBy(a, n \div LimbBits, 2 ^ (n % LimbBits))

\* the number of bits of a limb and of a number
IntBitLen(n) == Cardinality({k \in 0 .. (LimbBits - 1) : 2 ^ k <= n})
NatBitLen(a) ==
    IF Len(a) = 0 THEN 0 ELSE LimbBits * (Len(a) - 1) + IntBitLen(a[Len(a)])

NatIsOdd(a) == Len(a) > 0 /\ a[1] % 2 = 1

\* the number of trailing zero bits of a > 0
IntTrailingZeros(n) == Cardinality({k \in 1 .. LimbBits : n % (2 ^ k) = 0})
NatTrailingZerosAt(a, i) == LimbBits * (i - 1) + IntTrailingZeros(a[i])
NatTrailingZeros(a) == NatTrailingZerosAt(a, MinOf({j \in 1 .. Len(a) : a[j] # 0}))

\* a / 2^s for s >= 1 to the nearest integer, ties to even: the bits of a
\* above the lowest s, one more when the bits cut off are more than half a
\* unit, or exactly half and the kept bits odd
NatHalfUp(a, s) ==
    /\ NatIsOdd(NatShr(a, s - 1))
    /\ (NatTrailingZeros(a) < s - 1 \/ NatIsOdd(NatShr(a, s)))
NatRoundShr(a, s) ==
    IF NatHalfUp(a, s) THEN NatAdd(NatShr(a, s), << 1 >>) ELSE NatShr(a, s)

\* the quotient digit of r by b, for r < b * LimbBase and b with the top bit
\* of its top limb set: the estimate qhat from the two top limbs of r is at
\* most 2 too large
NatDigitFrom(r, b, qhat) ==
    IF NatCmp(NatMulSmall(b, qhat), r) <= 0 THEN qhat
    ELSE IF NatCmp(NatMulSmall(b, qhat - 1), r) <= 0 THEN qhat - 1
    ELSE qhat - 2
NatDigit(r, b) ==
    NatDigitFrom(r, b,
        Min(LimbBase - 1,
            (NatLimb(r, Len(b) + 1) * LimbBase + NatLimb(r, Len(b))) \div b[Len(b)]))

\* one step of long division: limb st.i of a is brought down to the
\* remainder st.r, which gives r1, and the quotient st.q gains the digit qd
NatDivPut(b, st, r1, qd) ==
    [i |-> st.i - 1,
     r |-> IF qd = 0 THEN r1 ELSE NatSub(r1, NatMulSmall(b, qd)),
     q |-> << qd >> \o st.q]
NatDivDown(b, st, r1) ==
    NatDivPut(b, st, r1, IF NatCmp(r1, b) < 0 THEN 0 ELSE NatDigit(r1, b))
NatDivStep(a, b, st) == NatDivDown(b, st, NatTrim(<< a[st.i] >> \o st.r))

\* the steps until the limbs of a are used up
RECURSIVE NatDivLoop(_, _, _)
NatDivLoop(a, b, st) ==
    IF st.i = 0 THEN st ELSE NatDivLoop(a, b, NatDivStep(a, b, st))

\* a divided by b > 0: quotient and remainder.  Both are first shifted by s
\* bits so that the top limb of b has its top bit set; the top limbs of a,
\* fewer than b has, are the first remainder.
NatDivFrom(a, b, i) ==
    NatDivLoop(a, b, [i |-> i, r |-> SubSeq(a, i + 1, Len(a)), q |-> << >>])
NatDivEnd(st, s) == [q |-> NatTrim(st.q), r |-> NatShr(st.r, s)]
NatDivShifted(a, b, s) ==
    NatDivEnd(NatDivFrom(a, b, Max(0, Len(a) - Len(b) + 1)), s)
NatDivBy(a, b, s) == NatDivShifted(NatShl(a, s), NatShl(b, s), s)
NatDivMod(a, b) == NatDivBy(a, b, LimbBits - IntBitLen(b[Len(b)]))

(***************************************************************************)
(* IEEE 754 binary64 values, the floats of the program.  A float is        *)
(* (-1)^neg * mant * 2^exp with mant odd and below 2^53, or zero (mant     *)
(* empty, exp 0, neg FALSE); np tells a numpy.float64 from a Python float, *)
(* which the builtin round() treats differently.  Results are rounded to   *)
(* nearest, ties to even.  Infinities, NaN, subnormals and the sign of     *)
(* zero are not modelled; the values of the model stay clear of them.      *)
(***************************************************************************)
MantBits == 52 + 1

F64Nought(np) == [np |-> np, neg |-> FALSE, mant |-> << >>, exp |-> 0]

\* m * 2^e for an exact m > 0 that fits the mantissa
F64Odd(np, neg, m, e, tz) ==
    [np |-> np, neg |-> neg, mant |-> NatShr(m, tz), exp |-> e + tz]
F64Canon(np, neg, m, e) == F64Odd(np, neg, m, e, NatTrailingZeros(m))

\* the float nearest to m * 2^e, m > 0: m rounded to MantBits bits, s being
\* the number of bits it has more
F64RoundBy(np, neg, m, e, s) ==
    IF s <= 0 THEN F64Canon(np, neg, m, e)
    ELSE F64Canon(np, neg, NatRoundShr(m, s), e + s)
F64Round(np, neg, m, e) == F64RoundBy(np, neg, m, e, NatBitLen(m) - MantBits)

\* the float nearest to (n / d) * 2^e, n > 0, d > 0: a quotient dm.q of 55
\* bits or more, with one more bit that tells whether anything was left
F64RoundQuot(np, neg, dm, e) ==
    F64Round(np, neg,
             IF Len(dm.r) = 0 THEN NatShl(dm.q, 1)
             ELSE NatAdd(NatShl(dm.q, 1), << 1 >>),
             e - 1)
F64RoundRatioBy(np, neg, n, d, e, k) ==
    F64RoundQuot(np, neg, NatDivMod(NatShl(n, k), d), e - k)
F64RoundRatio(np, neg, n, d, e) ==
    F64RoundRatioBy(np, neg, n, d, e,
                    Max(0, MantBits + 2 + NatBitLen(d) - NatBitLen(n)))

\* the Python float written n / scale in decimal: Float(55, 100) is 0.55
Float(n, scale) ==
    IF n = 0 THEN F64Nought(FALSE)
    ELSE F64RoundRatio(FALSE, n < 0, NatOfInt(IF n < 0 THEN -n ELSE n), NatOfInt(scale), 0)
\* the same value as a numpy.float64
NpFloat(n, scale) == [Float(n, scale) EXCEPT !.np = TRUE]

F64Zero == Float(0, 1)
F64One == Float(1, 1)
F64Hundred == Float(100, 1)

F64IsZero(x) == Len(x.mant) = 0
F64Neg(x) == IF F64IsZero(x) THEN x ELSE [x EXCEPT !.neg = ~ x.neg]
F64Abs(x) == [x EXCEPT !.neg = FALSE]

\* -1, 0, 1 as |x| < |y|, |x| = |y|, |x| > |y|; for x and y not zero, from
\* the places hx and hy of their top bits and the smaller exponent e
F64CmpTop(x, y, hx, hy, e) ==
    IF hx > hy THEN 1 ELSE IF hx < hy THEN -1
    ELSE NatCmp(NatShl(x.mant, x.exp - e), NatShl(y.mant, y.exp - e))
F64CmpAbs(x, y) ==
    IF F64IsZero(x) \/ F64IsZero(y)
    THEN (IF F64IsZero(x) THEN 0 ELSE 1) - (IF F64IsZero(y) THEN 0 ELSE 1)
    ELSE F64CmpTop(x, y, NatBitLen(x.mant) + x.exp, NatBitLen(y.mant) + y.exp,
                   Min(x.exp, y.exp))

\* -1, 0, 1 as x < y, x = y, x > y
F64Cmp(x, y) ==
    IF x.neg # y.neg THEN (IF x.neg THEN -1 ELSE 1)
    ELSE IF x.neg THEN - F64CmpAbs(x, y) ELSE F64CmpAbs(x, y)

F64Lt(x, y) == F64Cmp(x, y) < 0
F64Leq(x, y) == F64Cmp(x, y) <= 0
F64Eq(x, y) == F64Cmp(x, y) = 0

\* x + y; a numpy.float64 operand makes the result one.  a and b are the
\* mantissas at the smaller exponent e, c their order.
F64AddOrdered(np, x, y, a, b, e, c) ==
    IF c = 0 THEN F64Nought(np)
    ELSE IF c > 0 THEN F64Round(np, x.neg, NatSub(a, b), e)
    ELSE F64Round(np, y.neg, NatSub(b, a), e)
F64AddAligned(np, x, y, a, b, e) ==
    IF x.neg = y.neg THEN F64Round(np, x.neg, NatAdd(a, b), e)
    ELSE F64AddOrdered(np, x, y, a, b, e, NatCmp(a, b))
F64AddAt(x, y, e) ==
    F64AddAligned(x.np \/ y.np, x, y,
                  NatShl(x.mant, x.exp - e), NatShl(y.mant, y.exp - e), e)
F64Add(x, y) ==
    IF F64IsZero(x) THEN [y EXCEPT !.np = x.np \/ y.np]
    ELSE IF F64IsZero(y) THEN [x EXCEPT !.np = x.np \/ y.np]
    ELSE F64AddAt(x, y, Min(x.exp, y.exp))

F64Sub(x, y) == F64Add(x, F64Neg(y))

\* x * y
F64Mul(x, y) ==
    IF F64IsZero(x) \/ F64IsZero(y) THEN F64Nought(x.np \/ y.np)
    ELSE F64Round(x.np \/ y.np, x.neg # y.neg, NatMul(x.mant, y.mant), x.exp + y.exp)

\* x / y for y # 0
F64Div(x, y) ==
    IF ~ F64IsZero(y) /\ F64IsZero(x) THEN F64Nought(x.np \/ y.np)
    ELSE F64RoundRatio(x.np \/ y.np, x.neg # y.neg, x.mant, y.mant, x.exp - y.exp)

\* the builtins min(a, b) and max(a, b): the first argument unless the
\* second is smaller (larger)
PyMin(a, b) == IF F64Lt(b, a) THEN b ELSE a
PyMax(a, b) == IF F64Lt(a, b) THEN b ELSE a

\* x * 10^ndigits to the nearest integer, ties to even, from the exact value
\* of x (ndigits <= 4, the result below 2^31): n is the mantissa times
\* 10^ndigits
IntOfSigned(neg, k) == IF neg THEN - IntOfNat(k) ELSE IntOfNat(k)
RoundScaledNat(x, n) ==
    IntOfSigned(x.neg, IF x.exp >= 0 THEN NatShl(n, x.exp)
                       ELSE NatRoundShr(n, - x.exp))
RoundScaled(x, ndigits) ==
    IF F64IsZero(x) THEN 0
    ELSE RoundScaledNat(x, NatMulSmall(x.mant, 10 ^ ndigits))

\* round(x, ndigits) on a Python float: the decimal nearest to the exact
\* value of x, ties to even, as a float again
PyRound(x, ndigits) == Float(RoundScaled(x, ndigits), 10 ^ ndigits)

\* round(x, ndigits) on a numpy.float64: rint(x * 10**ndigits) / 10**ndigits
NpRound(x, ndigits) ==
    NpFloat(RoundScaled(F64Mul(x, Float(10 ^ ndigits, 1)), 0), 10 ^ ndigits)

\* the builtin round(x, ndigits), which asks the type of x
round(x, ndigits) == IF x.np THEN NpRound(x, ndigits) ELSE PyRound(x, ndigits)

(***************************************************************************)
(* bankroll.py : BankrollManager                                           *)
(***************************************************************************)

\* fraction = (b * p - q) / b  with b = odds - 1, q = 1 - p   (odds > 1)
KellyFraction_NoDivision(odds, prob) ==
    LET fraction(b, p, q) == F64Sub(F64Mul(b, p), q)
    IN  fraction(F64Sub(odds, F64One), prob, F64Sub(F64One, prob))

KellyFraction(odds, prob) ==
    LET fraction(b, p, q) == F64Div(F64Sub(F64Mul(b, p), q), b)
    IN  fraction(F64Sub(odds, F64One), prob, F64Sub(F64One, prob))

\* kelly_fraction = 0.5
kelly_fraction == Float(5, 10)

\* safe_stake_pct = max(0.0, min(fraction * kelly_fraction, max_stake_pct))
SafeStakePct_NoFloor(fraction, max_stake_pct) ==
    LET stake_pct == F64Mul(fraction, kelly_fraction)
    IN  PyMin(stake_pct, max_stake_pct)

SafeStakePct(fraction, max_stake_pct) ==
    LET stake_pct == F64Mul(fraction, kelly_fraction)
    IN  PyMax(F64Zero, PyMin(stake_pct, max_stake_pct))

\* calculate_kelly_stake(self, odds, prob) with self.bankroll and
\* self.max_stake_pct.  The early return for odds <= 1 is the float 0.0, not
\* a dict.
calculate_kelly_stake(self, odds, prob) ==
    IF F64Leq(odds, F64One)
    THEN [kind |-> "float", value |-> F64Zero]
    ELSE LET stake_amount(safe_stake_pct) == F64Mul(self.bankroll, safe_stake_pct)
             dict(fraction, safe_stake_pct) ==
                 [kind       |-> "dict",
                  percentage |-> round(F64Mul(safe_stake_pct, F64Hundred), 2),
                  amount     |-> round(stake_amount(safe_stake_pct), 2),
                  raw_kelly  |-> round(fraction, 4)]
             sized(fraction) ==
                 dict(fraction, SafeStakePct(fraction, self.max_stake_pct))
         IN  sized(KellyFraction(odds, prob))

\* update_bankroll(self, pnl): self.bankroll += pnl
update_bankroll(bankroll, pnl) == F64Add(bankroll, pnl)

\* BankrollManager(initial_bankroll=1000.0, max_stake_pct=0.05)
DefaultInitialBankroll == Float(1000, 1)
DefaultMaxStakePct == Float(5, 100)

(***************************************************************************)
(* value_detector.py : ValueDetector                                       *)
(***************************************************************************)

\* ev = (model_prob * bookmaker_odds) - 1
ExpectedValue(model_prob, bookmaker_odds) ==
    F64Sub(F64Mul(model_prob, bookmaker_odds), F64One)

\* the literals ev is compared with
EvDiamond == Float(20, 100)
EvGold    == Float(10, 100)
EvValue   == Float(5, 100)

\* the grade ladder of analyze_bet (the source prefixes each with an emoji)
Grade(ev) ==
    IF F64Lt(EvDiamond, ev) THEN "DIAMOND"
    ELSE IF F64Lt(EvGold, ev) THEN "GOLD"
    ELSE IF F64Lt(EvValue, ev) THEN "SILVER"
    ELSE IF F64Lt(F64Zero, ev) THEN "BRONZE"
    ELSE "NO BET"

\* analyze_bet(self, model_prob, bookmaker_odds).  There is no check of the
\* odds: the only failure is the division 1/bookmaker_odds of the dict.
analyze_bet(model_prob, bookmaker_odds) ==
    LET dict(ev) ==
            [kind         |-> "dict",
             ev           |-> ev,
             is_value     |-> F64Lt(EvValue, ev),
             grade        |-> Grade(ev),
             model_prob   |-> model_prob,
             implied_prob |-> F64Div(F64One, bookmaker_odds)]
    IN  IF F64IsZero(bookmaker_odds)
        THEN [kind |-> "raise", error |-> "ZeroDivisionError"]
        ELSE dict(ExpectedValue(model_prob, bookmaker_odds))

(***************************************************************************)
(* main_engine.py : PredictionEngine                                       *)
(***************************************************************************)

Outcomes == {"1", "X", "2"}

\* calculate_value(self, real_prob, house_odds): 0 for odds <= 0, else
\* round((real_prob * house_odds) - 1, 4)
calculate_value(real_prob, house_odds) ==
    IF F64Leq(house_odds, F64Zero) THEN F64Zero
    ELSE round(F64Sub(F64Mul(real_prob, house_odds), F64One), 4)

\* the literals of detect_edge
TrapProb  == Float(65, 100)
TrapQuota == Float(125, 100)
TrapEdge  == Float(-10, 100)
GoldEdge  == Float(20, 100)
GoldProb  == Float(40, 100)
ValueEdge == Float(5, 100)

\* the market_status chain of detect_edge: trap first, then gold
MarketStatus(prob, quota, edge) ==
    IF F64Lt(TrapProb, prob) /\ F64Lt(quota, TrapQuota) /\ F64Lt(edge, TrapEdge)
    THEN "RED_TRAP"
    ELSE IF F64Lt(GoldEdge, edge) /\ F64Lt(GoldProb, prob) THEN "GOLD_GLITCH"
    ELSE "NORMAL"

\* one entry of the results dict of detect_edge
EdgeEntry(prob, quota) ==
    LET entry(edge) ==
            [prob          |-> prob,
             odds          |-> quota,
             value         |-> edge,
             is_value      |-> F64Lt(ValueEdge, edge),
             market_status |-> MarketStatus(prob, quota, edge)]
    IN  entry(calculate_value(prob, quota))

\* detect_edge(self, predicted_probs, market_odds): one entry per outcome of
\* "1", "X", "2" that market_odds has
detect_edge(predicted_probs, market_odds) ==
    [outcome \in Outcomes \cap DOMAIN market_odds |->
        EdgeEntry(predicted_probs[outcome], market_odds[outcome])]

(***************************************************************************)
(* The Kelly state machine: one BankrollManager, sized and updated.        *)
(* Odds are written in hundredths and probabilities in ten-thousandths;    *)
(* the call receives the floats these decimals denote.  The record of a    *)
(* call is dropped when the bankroll is updated, and a bankroll is asked   *)
(* once: the call changes nothing, a second one would answer the same.     *)
(***************************************************************************)

\* the cap on the bankroll that update_bankroll may reach in the model
MaxKellyBankroll == 1500

\* BankrollManager(initial_bankroll, 0.05) as constructed in the model, in
\* tenths: 1000.0, 8.5, 0.3, 0.1
KellyBankrolls == {10000, 85, 3, 1}
KellyOdds  == {50, 100, 101, 115, 150, 210, 220, 250, 320, 500}
KellyProbs == {0, 2500, 4000, 5500, 7000, 10000}
KellyPnls  == {-500, 250}

KellyParked ==
    /\ k_bankroll = DefaultInitialBankroll
    /\ k_call = NoCall
    /\ k_ret = NoCall

KellyInit ==
    /\ k_bankroll \in {Float(b, 10) : b \in KellyBankrolls}
    /\ k_call = NoCall
    /\ k_ret = NoCall

KellyCall(odds, prob) ==
    /\ k_call = NoCall
    /\ k_call' = [kind |-> "args", odds |-> odds, prob |-> prob,
                  bankroll |-> k_bankroll, max_stake_pct |-> DefaultMaxStakePct]
    /\ k_ret' = calculate_kelly_stake(
                    [bankroll |-> k_bankroll, max_stake_pct |-> DefaultMaxStakePct],
                    Float(odds, OddsScale), Float(prob, ProbScale))
    /\ UNCHANGED k_bankroll
    /\ KellyFrame

KellyUpdateBankroll(pnl) ==
    /\ k_bankroll' = update_bankroll(k_bankroll, Float(pnl, 1))
    /\ F64Leq(F64Zero, k_bankroll')
    /\ F64Leq(k_bankroll', Float(MaxKellyBankroll, 1))
    /\ k_call' = NoCall
    /\ k_ret' = NoCall
    /\ KellyFrame

KellyNext ==
    \/ \E odds \in KellyOdds, prob \in KellyProbs : KellyCall(odds, prob)
    \/ \E pnl \in KellyPnls : KellyUpdateBankroll(pnl)

(***************************************************************************)
(* The edge analysers applied to one set of inputs, written like those of  *)
(* the Kelly machine: probabilities in ten-thousandths, odds in hundredths.*)
(***************************************************************************)

Triple(h, d, a) == [o \in Outcomes |-> IF o = "1" THEN h ELSE IF o = "X" THEN d ELSE a]

\* the dict of floats a dict of decimals denotes
Floats(dict, scale) == [o \in DOMAIN dict |-> Float(dict[o], scale)]

EdgeProbTriples ==
    { Triple(7000, 2000, 1000), Triple(4500, 3000, 2500), Triple(7258, 1742, 1000),
      Triple(3300, 3300, 3300), Triple(10000, 0, 0), Triple(8468, 1000, 532),
      Triple(9231, 500, 269), Triple(5122, 2878, 2000), Triple(5000, 3000, 2000) }

EdgeMarkets ==
    { Triple(115, 700, 1500), Triple(280, 320, 250), Triple(124, 650, 1100),
      Triple(210, 340, 350), Triple(130, 500, 900), Triple(205, 340, 380),
      Triple(220, 330, 340),
      ("1" :> 0), ("1" :> 90 @@ "2" :> 100) }

EdgeParked ==
    /\ e_call = NoCall
    /\ e_edge = NoCall
    /\ e_val = NoCall

EdgeInit ==
    /\ e_call \in [kind : {"args"}, probs : EdgeProbTriples, market_odds : EdgeMarkets]
    /\ e_edge = NoCall
    /\ e_val = NoCall

CallDetectEdge ==
    /\ e_edge = NoCall
    /\ e_edge' = [kind |-> "dict",
                  results |-> detect_edge(Floats(e_call.probs, ProbScale),
                                          Floats(e_call.market_odds, OddsScale))]
    /\ UNCHANGED <<e_call, e_val>>
    /\ EdgeFrame

CallAnalyzeBet(outcome) ==
    /\ e_val = NoCall
    /\ outcome \in DOMAIN e_call.market_odds
    /\ e_val' = [kind |-> "called", outcome |-> outcome,
                 ret |-> analyze_bet(Float(e_call.probs[outcome], ProbScale),
                                     Float(e_call.market_odds[outcome], OddsScale))]
    /\ UNCHANGED <<e_call, e_edge>>
    /\ EdgeFrame

EdgeNext ==
    \/ CallDetectEdge
    \/ \E outcome \in Outcomes : CallAnalyzeBet(outcome)

(***************************************************************************)
(* backtester.py : Backtester.run_backtest over one prepared data frame.   *)
(*                                                                         *)
(* The frame is described by what run_backtest reads of it: its length,    *)
(* the index labels its rows kept after load_and_prep_data (dropna does    *)
(* not renumber them), the rows without FTR, the results of the others,    *)
(* the rows on which the classifier's predict_proba raises (the statistics *)
(* of a team that has no goals recorded in the training slice are NaN),    *)
(* and per row the bookmaker odds and the probabilities the fitted         *)
(* classifier returns.                                                     *)
(* Odds and probabilities of the frame are written as decimals (odds in   *)
(* hundredths, probabilities in ten-thousandths); the run computes on the  *)
(* floats they denote.  A ledger row names its fixture by the position of  *)
(* the row in the frame.  _calculate_sharpe (mean, std, sqrt over floats)  *)
(* is not modelled; the returns it would read are.                         *)
(***************************************************************************)

\* run_backtest(window_size, test_size) as called in the model, and how many
\* calls one Backtester receives.  BtLongTestSize is a test window long
\* enough for a run of losing bets to take the bankroll below one unit.
BtWindowSize == 11
BtTestSize   == 2
BtLongTestSize == 205
MaxBtCalls   == 2

BtTestSizes == {BtTestSize, BtLongTestSize}

\* pd.isna(row[odds_col])
NaN == -1

\* the (market, prob_key, odds_col, result_check) list of the test loop
MarketList ==
    << [market |-> "1", result_check |-> "H"],
       [market |-> "X", result_check |-> "D"],
       [market |-> "2", result_check |-> "A"] >>

\* rows of the historical frame, by position: the odds, the result (the
\* results of a frame repeat with period 3), and what predict_proba returns
\* for the row from a classifier fitted on three classes, and on two
BtRow(df, i) ==
    CASE i % 3 = 0 -> [B365 |-> Triple(220, 340, 360), FTR |-> df.ftr[1],
                       fitted |-> << 5500, 2500, 2000 >>, binary |-> << 7000, 3000 >>]
      [] i % 3 = 1 -> [B365 |-> Triple(150, 400, 600), FTR |-> df.ftr[2],
                       fitted |-> << 6000, 2500, 1500 >>, binary |-> << 8000, 2000 >>]
      [] OTHER     -> [B365 |-> Triple(NaN, 320, 280), FTR |-> df.ftr[3],
                       fitted |-> << 3000, 4000, 3000 >>, binary |-> << 4500, 5500 >>]

\* the results of a frame: all three classes, no draw, home wins only
AllResults == << "H", "A", "D" >>
NoDraws    == << "H", "A", "H" >>
HomeWins   == << "H", "H", "H" >>

BtLens == { BtWindowSize + BtTestSize - 1, BtWindowSize + BtTestSize,
            BtWindowSize + 2 * BtTestSize, BtWindowSize + 2 * BtTestSize + 1 }

\* the frames of the model: short histories, complete or without the first
\* result; a long one whose fixtures after the first window have odds but
\* no result yet; histories without draws and with home wins only; and one
\* whose first test row cannot be scored
BtFrames ==
    [len : BtLens, shift : {0, 1}, nan : {{}, {0}}, ftr : {AllResults}, raising : {{}}]
    \cup { [len |-> BtWindowSize + BtLongTestSize, shift |-> 0,
            nan |-> BtWindowSize .. (BtWindowSize + BtLongTestSize - 1),
            ftr |-> AllResults, raising |-> {}] }
    \cup { [len |-> BtWindowSize + BtTestSize, shift |-> 0, nan |-> {},
            ftr |-> r, raising |-> {}] : r \in {NoDraws, HomeWins} }
    \cup { [len |-> BtWindowSize + BtTestSize, shift |-> 0, nan |-> {},
            ftr |-> AllResults, raising |-> {BtWindowSize}] }

\* total_windows = (len(df) - window_size) // test_size
total_windows(len, window_size, test_size) == (len - window_size) \div test_size

\* start = window_idx * test_size ; train_end = start + window_size ;
\* test_end = min(train_end + test_size, len(df))
WindowStart(window_idx, test_size) == window_idx * test_size
TrainEnd(start, window_size) == start + window_size
TestEnd(train_end, test_size, len) == Min(train_end + test_size, len)

\* positions of df.iloc[a:b]
ILoc(a, b) == a .. (b - 1)

\* X = X[valid]: X (built by _build_anonymous_features) is labelled
\* 0..len-1, valid keeps the labels of train_df.  pandas raises IndexingError
\* unless every label of X is a label of valid.
TrainRaises(df, train) ==
    ~ ((0 .. (Cardinality(train) - 1)) \subseteq {i + df.shift : i \in train})

\* self.ml.model_res.fit(X, y[valid]): y has the classes of the valid rows;
\* GradientBoostingClassifier raises ValueError for fewer than two
Classes(df, valid) == {BtRow(df, i).FTR : i \in valid}
FitRaises(df, valid) == Cardinality(Classes(df, valid)) < 2

\* model_res.predict_proba(features)[0]: one numpy.float64 per class the
\* classifier was fitted on, in the order of the classes
predict_proba(ml, df, i) ==
    LET probs == IF Cardinality(ml.classes) = 3 THEN BtRow(df, i).fitted
                 ELSE BtRow(df, i).binary
    IN  [k \in 1 .. Len(probs) |-> NpFloat(probs[k], ProbScale)]

\* predict_match: the literals 0.33 unless is_trained and _team_stats is
\* there, and when predict_proba raises; else the classifier's numpy
\* probabilities, each through round(probs[i], 4) when there are three of
\* them, and the first and the last as they are, around a draw of 0.0, when
\* there are fewer
NeutralProbs == [o \in Outcomes |-> Float(33, 100)]
predict_match(ml, df, i) ==
    LET result(probs) ==
            IF Len(probs) < 3
            THEN [o \in Outcomes |-> IF o = "1" THEN probs[1]
                                     ELSE IF o = "X" THEN F64Zero
                                     ELSE probs[Len(probs)]]
            ELSE [o \in Outcomes |-> round(IF o = "1" THEN probs[1]
                                           ELSE IF o = "X" THEN probs[2]
                                           ELSE probs[3], 4)]
    IN  IF ~ ml.is_trained \/ ~ ml.has_team_stats THEN NeutralProbs
        ELSE IF i \in df.raising THEN NeutralProbs
        ELSE result(predict_proba(ml, df, i))

\* if stake < 0.01: continue
MinStake == Float(1, 100)

\* the position after (row, market) in the nested test loops, or the next
\* window when the test rows are exhausted
BtAdvance(loc, test_end) ==
    IF loc.market < Len(MarketList)
    THEN [loc EXCEPT !.market = loc.market + 1]
    ELSE IF loc.row + 1 < test_end
         THEN [loc EXCEPT !.row = loc.row + 1, !.market = 1]
         ELSE [loc EXCEPT !.pc = "window", !.window_idx = loc.window_idx + 1,
                          !.market = 1]

BtIdle == [pc |-> "idle"]

\* the first component of the returned tuple: None, or
\* pd.DataFrame(history) if history else pd.DataFrame()
NoFrame == [type |-> "NoneType"]
DataFrame(history) == [type |-> "DataFrame", rows |-> history]

\* results, bankroll = backtester.run_backtest() in test_integration: the
\* two-name unpacking of a call's outcome, and the branch on results
test_integration(ret) ==
    IF ret.kind = "raise"
    THEN ret
    ELSE IF Len(ret.items) # 2
    THEN [kind |-> "raise", error |-> "ValueError"]
    ELSE [kind |-> "pair", results |-> ret.items[1], bankroll |-> ret.items[2],
          printed |-> IF ret.items[1].type # "NoneType" THEN "PASS" ELSE "FAIL"]

\* Backtester(): BankrollManager(1000.0, 0.05), and a ValueBetML that is not
\* trained and has no _team_stats yet
NewBacktester ==
    [bankroll |-> DefaultInitialBankroll, is_trained |-> FALSE,
     has_team_stats |-> FALSE, team_stats |-> {}, fitted |-> {}, classes |-> {}]

BtParked ==
    /\ bt_df = [len |-> 0, shift |-> 0, nan |-> {}, ftr |-> AllResults, raising |-> {}]
    /\ bt_self = NewBacktester
    /\ bt_loc = BtIdle
    /\ bt_calls = 0
    /\ bt_kelly = NoCall
    /\ bt_scored = {}
    /\ bt_ret = NoCall

\* a Backtester on any of the frames
BtInit ==
    /\ bt_df \in BtFrames
    /\ bt_self = NewBacktester
    /\ bt_loc = BtIdle
    /\ bt_calls = 0
    /\ bt_kelly = NoCall
    /\ bt_scored = {}
    /\ bt_ret = NoCall

\* run_backtest up to the window loop: the early return, or the locals
BtRunBacktest(test_size) ==
    /\ bt_loc.pc = "idle"
    /\ bt_calls < MaxBtCalls
    /\ bt_calls' = bt_calls + 1
    /\ IF bt_df.len < BtWindowSize + test_size
       THEN \* return None, 0, 0, {}
            /\ bt_ret' = [kind |-> "tuple",
                          items |-> << NoFrame, 0, 0, [m \in {} |-> 0] >>]
            /\ UNCHANGED bt_loc
       ELSE /\ bt_loc' = [pc |-> "window", test_size |-> test_size,
                          window_idx |-> 0, row |-> 0, market |-> 1,
                          bankroll |-> Float(1000, 1), history |-> << >>,
                          returns |-> << >>,
                          market_returns |-> [m \in Outcomes |-> << >>]]
            /\ UNCHANGED bt_ret
    /\ UNCHANGED <<bt_df, bt_self, bt_kelly, bt_scored>>
    /\ BtFrame

\* one pass of the window loop up to the test loop: slice, reset, train
BtTrainWindow ==
    /\ bt_loc.pc = "window"
    /\ bt_loc.window_idx < total_windows(bt_df.len, BtWindowSize, bt_loc.test_size)
    /\ LET start     == WindowStart(bt_loc.window_idx, bt_loc.test_size)
           train_end == TrainEnd(start, BtWindowSize)
           train     == ILoc(start, train_end)
           valid     == train \ bt_df.nan
       IN  IF \/ TrainRaises(bt_df, train)
              \/ Cardinality(valid) > 10 /\ FitRaises(bt_df, valid)
           THEN \* except Exception: continue
                /\ bt_self' = [bt_self EXCEPT !.is_trained = FALSE,
                                              !.has_team_stats = TRUE,
                                              !.team_stats = train]
                /\ bt_loc' = [bt_loc EXCEPT !.window_idx = bt_loc.window_idx + 1]
           ELSE /\ bt_self' = [bt_self EXCEPT
                                 !.is_trained = Cardinality(valid) > 10,
                                 !.has_team_stats = TRUE,
                                 !.team_stats = train,
                                 !.fitted = IF Cardinality(valid) > 10
                                            THEN valid ELSE bt_self.fitted,
                                 !.classes = IF Cardinality(valid) > 10
                                             THEN Classes(bt_df, valid)
                                             ELSE bt_self.classes]
                /\ bt_loc' = [bt_loc EXCEPT !.pc = "score", !.row = train_end,
                                            !.market = 1]
    /\ UNCHANGED <<bt_df, bt_calls, bt_kelly, bt_scored, bt_ret>>
    /\ BtFrame

\* one market of one test row: predict, analyse, size, settle, sync
BtScore ==
    /\ bt_loc.pc = "score"
    /\ LET start     == WindowStart(bt_loc.window_idx, bt_loc.test_size)
           train_end == TrainEnd(start, BtWindowSize)
           test_end  == TestEnd(train_end, bt_loc.test_size, bt_df.len)
           row       == BtRow(bt_df, bt_loc.row)
           entry     == MarketList[bt_loc.market]
           cell      == row.B365[entry.market]
           won       == bt_loc.row \notin bt_df.nan /\ row.FTR = entry.result_check
           raised(e) == /\ bt_loc' = BtIdle
                        /\ bt_ret' = [kind |-> "raise", error |-> e]
           \* history.append({...}) with the bet's returns and the sync
           \* self.bankroll_mgr.bankroll = bankroll
           settle(odds, model_prob, val, stake, profit, bankroll, pct_return) ==
               /\ bt_loc' = BtAdvance(
                      [bt_loc EXCEPT
                         !.bankroll = bankroll,
                         !.returns = Append(@, pct_return),
                         !.market_returns[entry.market] = Append(@, pct_return),
                         !.history = Append(@,
                             [Window |-> bt_loc.window_idx, Match |-> bt_loc.row,
                              Market |-> entry.market, Odds |-> odds,
                              Model_Prob |-> round(model_prob, 3),
                              EV |-> round(val.ev, 3),
                              Stake |-> round(stake, 2),
                              Result |-> IF won THEN "WON" ELSE "LOST",
                              Profit |-> round(profit, 2),
                              Bankroll |-> round(bankroll, 2)])],
                      test_end)
               /\ bt_self' = [bt_self EXCEPT !.bankroll = bankroll]
               /\ UNCHANGED bt_ret
           \* bankroll += profit ; pct_return = profit / max(bankroll - profit, 1)
           book(odds, model_prob, val, stake, profit, bankroll) ==
               settle(odds, model_prob, val, stake, profit, bankroll,
                      F64Div(profit, PyMax(F64Sub(bankroll, profit), F64One)))
           \* kelly = calculate_kelly_stake(odds, model_prob) ; stake ; profit
           size(odds, model_prob, val, kelly, profit) ==
               /\ bt_kelly' = [kind |-> "call", call |-> bt_calls,
                               manager_bankroll |-> bt_self.bankroll,
                               running_bankroll |-> bt_loc.bankroll,
                               odds |-> odds, prob |-> model_prob, ret |-> kelly,
                               placed |-> kelly.kind = "dict"
                                          /\ ~ F64Lt(kelly.amount, MinStake),
                               profit |-> profit]
               /\ IF kelly.kind = "float"
                  THEN raised("TypeError") /\ UNCHANGED bt_self
                  ELSE IF F64Lt(kelly.amount, MinStake)
                  THEN /\ bt_loc' = BtAdvance(bt_loc, test_end)
                       /\ UNCHANGED <<bt_self, bt_ret>>
                  ELSE book(odds, model_prob, val, kelly.amount, profit,
                            F64Add(bt_loc.bankroll, profit))
           stake(odds, model_prob, val, kelly) ==
               size(odds, model_prob, val, kelly,
                    IF won THEN F64Mul(kelly.amount, F64Sub(odds, F64One))
                           ELSE F64Neg(kelly.amount))
           \* val = analyze_bet(model_prob, odds) ; if val['is_value']
           analyse(odds, model_prob, val) ==
               IF val.kind = "raise"
               THEN raised(val.error) /\ UNCHANGED <<bt_self, bt_kelly>>
               ELSE IF ~ val.is_value
               THEN /\ bt_loc' = BtAdvance(bt_loc, test_end)
                    /\ UNCHANGED <<bt_self, bt_kelly, bt_ret>>
               ELSE stake(odds, model_prob, val,
                          calculate_kelly_stake(
                              [bankroll |-> bt_self.bankroll,
                               max_stake_pct |-> DefaultMaxStakePct],
                              odds, model_prob))
           \* probs = predict_match(...) ; model_prob = probs[prob_key]
           predict(odds, model_prob) ==
               analyse(odds, model_prob, analyze_bet(model_prob, odds))
       IN  /\ bt_scored' = bt_scored \cup
                  {[call |-> bt_calls, test_size |-> bt_loc.test_size,
                    window |-> bt_loc.window_idx, row |-> bt_loc.row,
                    team_stats |-> bt_self.team_stats, is_trained |-> bt_self.is_trained]}
           /\ IF cell = NaN
              THEN /\ bt_loc' = BtAdvance(bt_loc, test_end)
                   /\ UNCHANGED <<bt_self, bt_kelly, bt_ret>>
              ELSE predict(Float(cell, OddsScale),
                           predict_match(bt_self, bt_df, bt_loc.row)[entry.market])
    /\ UNCHANGED <<bt_df, bt_calls>>
    /\ BtFrame

\* after the window loop: the 4-tuple (results_df, final bankroll, sharpe,
\* market_analysis); of the last two only total_bets is modelled
BtReturn ==
    /\ bt_loc.pc = "window"
    /\ bt_loc.window_idx >= total_windows(bt_df.len, BtWindowSize, bt_loc.test_size)
    /\ bt_ret' = [kind |-> "tuple",
                  items |-> << DataFrame(bt_loc.history),
                               round(bt_loc.bankroll, 2),
                               0,
                               [m \in Outcomes |-> Len(bt_loc.market_returns[m])] >>]
    /\ bt_loc' = BtIdle
    /\ UNCHANGED <<bt_df, bt_self, bt_calls, bt_kelly, bt_scored>>
    /\ BtFrame

BtNext ==
    \/ \E test_size \in BtTestSizes : BtRunBacktest(test_size)
    \/ BtTrainWindow
    \/ BtScore
    \/ BtReturn

(***************************************************************************)
(* The bet ledger: AutoBetManager (auto_bet_manager.py) instances working  *)
(* on one database (database.py) and one results provider                  *)
(* (scraper_365.py), with the predictor of rl_engine.py behind them.       *)
(*                                                                         *)
(* A manager runs one invocation at a time.  A step of an invocation is    *)
(* one request to the provider or one execute_query call, together with    *)
(* the local computation that follows it: execute_query commits on its     *)
(* own, so what one manager has written is visible to the others before    *)
(* its next statement runs.  Every execute_query commits, or fails and is  *)
(* swallowed (rollback, None), or finds no connection and raises, each     *)
(* call on its own; every request to the provider either answers or        *)
(* fails.  The network of RLEngine is a fixed function of its weights,     *)
(* stood for by a table.                                                   *)
(***************************************************************************)

NumManagers    == 2
NumGames       == 1
MaxInvocations == 3

\* managers built after the first ones: with them, every invocation of the
\* model can be the first one of its manager
MaxBuilt == 1

Managers == 1 .. NumManagers
Games    == 1 .. NumGames

\* Python None, and the truth value of a result string
None == "None"
Truthy(s) == s # None /\ s # ""

\* what the provider reports of a game: not begun; over, with completion 100
\* under a statusText other than 'Ended'; over, with statusText 'Ended'
Scheduled == [statusText |-> "Scheduled", completion |-> 0]
Completed == [statusText |-> "Final", completion |-> 100]
Ended     == [statusText |-> "Ended", completion |-> 100]
Phases    == {Scheduled, Completed, Ended}

\* Final scores, and the community votes of promotedPredictions.
FinalScore(g) ==
    IF g % 2 = 1 THEN [home |-> 2, away |-> 1] ELSE [home |-> 1, away |-> 1]

ProviderVotes(g) ==
    IF g % 2 = 1
    THEN [v1 |-> 40, vX |-> 30, v2 |-> 30, totalVotes |-> 500]
    ELSE [v1 |-> 20, vX |-> 25, v2 |-> 55, totalVotes |-> 400]

\* a 200 response for a game: statusText, completion, the scores so far
\* (-1 before the game), the votes
ProviderGame(g, phase) ==
    [id |-> g,
     statusText |-> phase.statusText,
     completion |-> phase.completion,
     home_score |-> IF phase = Scheduled THEN -1 ELSE FinalScore(g).home,
     away_score |-> IF phase = Scheduled THEN -1 ELSE FinalScore(g).away,
     votes |-> ProviderVotes(g)]

\* if h_score > a_score: "1" elif a_score > h_score: "2" else: "X"
ScoreResult(h_score, a_score) ==
    IF h_score > a_score THEN "1" ELSE IF a_score > h_score THEN "2" ELSE "X"

\* Scraper365.get_game_details: the cached response if there is one, else
\* the provider's answer, cached when it is a 200 response
\* (None is a response without statusText)
NotCached == [statusText |-> "not cached"]
NoDetails == [statusText |-> None]

get_game_details(cache, g, phase, answered) ==
    IF cache[g].statusText # NotCached.statusText
    THEN [details |-> cache[g], cache |-> cache]
    ELSE IF answered
         THEN [details |-> ProviderGame(g, phase),
               cache |-> [cache EXCEPT ![g] = ProviderGame(g, phase)]]
         ELSE [details |-> NoDetails, cache |-> cache]

\* Scraper365.get_game_predictions: the vote percentages and their count
\* from the details, {} without details
NoVotes == [totalVotes |-> 0]
get_game_predictions(details) ==
    IF details.statusText = None THEN NoVotes ELSE details.votes

\* is_finished = status_text == 'Ended' or game.get('completion') == 100
is_finished(game) == game.statusText = "Ended" \/ game.completion = 100

\* generate_daily_bets, step 4: the placeholder odds, or odds from the
\* community votes when there are more than 100 of them:
\* round(1 / (pct/100 + 0.05), 2)
PlaceholderOdds == Floats(Triple(250, 320, 280), OddsScale)

OddsFromVote(pct) ==
    round(F64Div(F64One, F64Add(F64Div(Float(pct, 1), F64Hundred), Float(5, 100))), 2)

GameOdds(comm) ==
    IF comm.totalVotes > 100
    THEN [o \in Outcomes |->
            OddsFromVote(IF o = "1" THEN comm.v1 ELSE IF o = "X" THEN comm.vX
                         ELSE comm.v2)]
    ELSE PlaceholderOdds

\* step 2: the 14 features derived from the odds, implied_h and implied_a
\* being 1.0 / odds; the days of rest are the integer 4
ImpliedFeatures(implied_h, implied_a) ==
    << round(F64Mul(implied_h, Float(3, 1)), 2),
       round(F64Mul(implied_a, Float(3, 1)), 2),
       round(F64Mul(implied_a, Float(2, 1)), 2),
       round(F64Mul(implied_h, Float(2, 1)), 2),
       round(implied_h, 2),
       round(implied_a, 2),
       Float(5, 10), Float(5, 10),
       IF F64Lt(Float(6, 10), implied_h) THEN Float(8, 10) ELSE Float(5, 10),
       Float(5, 10),
       Float(4, 1), Float(4, 1),
       Float(1, 10), Float(1, 10) >>

BuildFeatures(odds) ==
    ImpliedFeatures(F64Div(F64One, odds["1"]), F64Div(F64One, odds["2"]))

\* int(x) of a float: towards zero
int(x) ==
    IF F64IsZero(x) THEN 0
    ELSE IntOfSigned(x.neg, IF x.exp >= 0 THEN NatShl(x.mant, x.exp)
                            ELSE NatShr(x.mant, - x.exp))

\* deep_data as generate_daily_bets builds it: loads are features * 900,
\* days of rest are int(features * 7)
DeepData(features) ==
    [home_minutes_load |-> F64Mul(features[7], Float(900, 1)),
     away_minutes_load |-> F64Mul(features[8], Float(900, 1)),
     home_motivation_score |-> features[9], away_motivation_score |-> features[10],
     home_days_rest |-> int(F64Mul(features[11], Float(7, 1))),
     away_days_rest |-> int(F64Mul(features[12], Float(7, 1))),
     home_attack_strength |-> features[1], away_attack_strength |-> features[2],
     home_defense_strength |-> features[3], away_defense_strength |-> features[4],
     home_form |-> features[5], away_form |-> features[6],
     wind_factor |-> features[13], rain_factor |-> features[14]]

\* LEAST(a, b) of the database
LEAST(a, b) == IF F64Lt(b, a) THEN b ELSE a

\* the SELECT of check_results_and_learn on a features_deep_data row:
\* loads / 900.0, LEAST(days_rest / 7.0, 1.0)
FeaturesOfRow(row) ==
    << row.home_attack_strength, row.away_attack_strength,
       row.home_defense_strength, row.away_defense_strength,
       row.home_form, row.away_form,
       F64Div(row.home_minutes_load, Float(900, 1)),
       F64Div(row.away_minutes_load, Float(900, 1)),
       row.home_motivation_score, row.away_motivation_score,
       LEAST(F64Div(Float(row.home_days_rest, 1), Float(7, 1)), F64One),
       LEAST(F64Div(Float(row.away_days_rest, 1), Float(7, 1)), F64One),
       row.wind_factor, row.rain_factor >>

\* RLEngine.predict: the network's softmax, each probability
\* round(probs[0][k].item(), 4).  The network is a fixed function of its
\* weights and the features; it is stood for by three sets of weights.
Weights == {"a", "b", "c"}

predict(weights, features) ==
    Floats(CASE weights = "a" -> IF F64Lt(Float(42, 100), features[5])
                                 THEN Triple(6000, 2500, 1500)
                                 ELSE Triple(2000, 2500, 5500)
             [] weights = "b" -> Triple(2000, 3000, 5000)
             [] OTHER         -> Triple(4602, 3000, 2398),
           ProbScale)

\* the weights the random initialisation of a manager's engine gives
ManagerWeights == {"a", "c"}

\* RLEngine.train_step: model.train() and a forward pass of a batch of one
\* through BatchNorm1d(64), which counts the batch and then raises
\* ValueError for fewer than two values per channel; nothing after the
\* forward pass runs.
\* x = torch.FloatTensor(features).unsqueeze(0).unsqueeze(0): (batch, seq, 14)
TrainInputShape(features) == << 1, 1, Len(features) >>

\* bn1 in training mode: num_batches_tracked.add_(1), on an engine record
\* that keeps the counter
CountBatch(rl) ==
    IF "num_batches_tracked" \in DOMAIN rl
    THEN [rl EXCEPT !.num_batches_tracked = @ + 1]
    ELSE rl

train_step(rl, features, target_idx) ==
    IF TrainInputShape(features)[1] < 2
    THEN [kind |-> "raise", error |-> "ValueError", rl |-> CountBatch(rl)]
    ELSE [kind |-> "float",
          rl |-> [CountBatch(rl) EXCEPT !.training_history = @ + 1, !.memory = @ + 1]]

\* step 5: ev = (prob * odds) - 1
BetEV(prob, odds) == F64Sub(F64Mul(prob, odds), F64One)

\* the selection of generate_daily_bets: "1" before "2", never "X"; without
\* a selection chosen_odds and chosen_ev are the integer 0
SelectOnEV(odds, confidence_threshold, ev_1, ev_2) ==
    IF F64Lt(confidence_threshold, ev_1)
    THEN [selection |-> "1", chosen_odds |-> odds["1"], chosen_ev |-> ev_1]
    ELSE IF F64Lt(confidence_threshold, ev_2)
    THEN [selection |-> "2", chosen_odds |-> odds["2"], chosen_ev |-> ev_2]
    ELSE [selection |-> None, chosen_odds |-> F64Zero, chosen_ev |-> F64Zero]

Select(probs, odds, confidence_threshold) ==
    SelectOnEV(odds, confidence_threshold,
               BetEV(probs["1"], odds["1"]), BetEV(probs["2"], odds["2"]))

\* stake = 10 * (1 + chosen_ev), handed to place_bet as round(stake, 2)
BetStake(chosen_ev) == round(F64Mul(Float(10, 1), F64Add(F64One, chosen_ev)), 2)

\* pnl = (stake * odds - stake) if won else -stake
BetPnl(won, stake, odds) ==
    IF won THEN F64Sub(F64Mul(stake, odds), stake) ELSE F64Neg(stake)

\* if final_result:
ResultKnown_Always(final_result) == TRUE
ResultKnown(final_result) == Truthy(final_result)

\* one iteration of generate_daily_bets between the request for the votes
\* and the first statement: odds, features, prediction and selection, and
\* in `placed` what save_match_data and place_bet are handed
PriceSelection(features, sel) ==
    [features |-> features, selection |-> sel.selection,
     placed |-> [selection |-> sel.selection, chosen_odds |-> sel.chosen_odds,
                 stake |-> BetStake(sel.chosen_ev),
                 expected_value |-> round(sel.chosen_ev, 3),
                 deep_data |-> DeepData(features)]]
PriceFeatures(odds, features, weights, confidence_threshold) ==
    PriceSelection(features,
                   Select(predict(weights, features), odds, confidence_threshold))
PriceOdds(odds, weights, confidence_threshold) ==
    PriceFeatures(odds, BuildFeatures(odds), weights, confidence_threshold)
PriceGame(comm, weights, confidence_threshold) ==
    PriceOdds(GameOdds(comm), weights, confidence_threshold)

\* the arguments the dashboard passes to generate_daily_bets: the sliders'
\* initial values
Thresholds == {Float(15, 100)}
MaxBetsArgs == {5}

\* PriceGame on what the managers of the model meet, computed once
Comms == {NoVotes} \cup {ProviderVotes(g) : g \in Games}
PricedGames ==
    [comm \in Comms, weights \in ManagerWeights, t \in Thresholds |->
        PriceGame(comm, weights, t)]

\* BetPnl and FeaturesOfRow on the bets and the rows that generate_daily_bets
\* can write, computed once
Placed ==
    {PricedGames[comm, weights, t].placed :
        comm \in Comms, weights \in ManagerWeights, t \in Thresholds}
BetPnls ==
    [b \in {[stake |-> p.stake, odds |-> p.chosen_odds] : p \in Placed}, won \in BOOLEAN |->
        BetPnl(won, b.stake, b.odds)]
RowFeatures == [row \in {p.deep_data : p \in Placed} |-> FeaturesOfRow(row)]

(***************************************************************************)
(* database.py : the three tables the ledger uses                          *)
(***************************************************************************)

NoRow == [present |-> FALSE]

\* INSERT INTO matches_historical ... ON CONFLICT (game_id) DO UPDATE SET
\* home_score, away_score, result
UpsertMatch(matches, g, result) ==
    [matches EXCEPT ![g] = [present |-> TRUE, result |-> result]]

\* INSERT INTO features_deep_data ... ON CONFLICT (game_id) DO UPDATE SET
\* home_minutes_load, away_minutes_load; game_id REFERENCES matches_historical
UpsertDeep(deep, matches, g, deep_data) ==
    IF ~ matches[g].present THEN deep
    ELSE IF deep[g].present
    THEN [deep EXCEPT ![g].row.home_minutes_load = deep_data.home_minutes_load,
                      ![g].row.away_minutes_load = deep_data.away_minutes_load]
    ELSE [deep EXCEPT ![g] = [present |-> TRUE, row |-> deep_data]]

\* place_bet: INSERT INTO bets_history; status, pnl (0.0) and learned take
\* the column defaults; game_id REFERENCES matches_historical
InsertBet(bets, matches, g, selection, odds, stake, ev) ==
    IF ~ matches[g].present THEN bets
    ELSE Append(bets, [game_id |-> g, selection |-> selection, odds |-> odds,
                       stake |-> stake, expected_value |-> ev,
                       status |-> "PENDING", pnl |-> F64Zero, learned |-> FALSE])

\* get_pending_bets: bets_history JOIN matches_historical WHERE PENDING
RECURSIVE PendingFrom(_, _, _)
PendingFrom(bets, matches, i) ==
    IF i > Len(bets) THEN << >>
    ELSE IF bets[i].status = "PENDING" /\ matches[bets[i].game_id].present
    THEN << [bet_id |-> i, game_id |-> bets[i].game_id,
             selection |-> bets[i].selection, odds |-> bets[i].odds,
             stake |-> bets[i].stake,
             db_result |-> matches[bets[i].game_id].result] >>
         \o PendingFrom(bets, matches, i + 1)
    ELSE PendingFrom(bets, matches, i + 1)

get_pending_bets(bets, matches) == PendingFrom(bets, matches, 1)

\* resolve_bet: UPDATE bets_history SET status, pnl WHERE bet_id
resolve_bet(bets, bet_id, result_status, pnl) ==
    [bets EXCEPT ![bet_id].status = result_status, ![bet_id].pnl = pnl]

\* mark_bet_as_learned: UPDATE bets_history SET learned = TRUE WHERE bet_id
mark_bet_as_learned(bets, bet_id) == [bets EXCEPT ![bet_id].learned = TRUE]

(***************************************************************************)
(* The ledger state machine                                                *)
(***************************************************************************)

\* how an execute_query call can end: the statement commits ("ok"); it fails
\* inside the try, is rolled back and swallowed, and the call returns None
\* ("error"); or get_connection, which is outside the try, raises ("raise")
DbOutcomes == {"ok", "error", "raise"}

\* how an invocation ends when get_connection raised:
\* raise Exception("Database connection failed. ...")
Exception == [kind |-> "raise", error |-> "Exception"]

\* how often train_step was called for a bet, by bet_id
NoneFed == [b \in {} |-> 0]
Feed(f, bet_id) ==
    IF bet_id \in DOMAIN f THEN [f EXCEPT ![bet_id] = @ + 1] ELSE f @@ (bet_id :> 1)

\* a handler's locals.  `bet` is what the running iteration of
\* generate_daily_bets computed for its game, `final_result` and `features`
\* belong to the running iteration of check_results_and_learn; `created`
\* counts the bets_history rows the running generate_daily_bets call has
\* inserted (the program keeps no such count)
NoBet == [selection |-> None]
IdleLoc ==
    [games |-> << >>, pending |-> << >>, i |-> 0, bets_placed |-> 0,
     max_bets |-> 0, confidence_threshold |-> F64Zero, bet |-> NoBet,
     final_result |-> None,
     resolved_count |-> 0, learned_count |-> 0, created |-> 0]

\* AutoBetManager(): a Scraper365 with an empty cache and an RLEngine; no
\* file is at MODEL_PATH unless a save_model has written it, so the weights
\* are what the random initialisation gave
NewEngine(w) == [weights |-> w, training_history |-> 0, memory |-> 0, saved |-> FALSE]
EmptyCache == [g \in Games |-> NotCached]

LedgerParked ==
    /\ p_game = [g \in Games |-> Scheduled]
    /\ built = 0
    /\ db_matches = [g \in Games |-> NoRow]
    /\ db_deep = [g \in Games |-> NoRow]
    /\ db_bets = << >>
    /\ m_pc = [m \in Managers |-> "idle"]
    /\ m_loc = [m \in Managers |-> IdleLoc]
    /\ m_cache = [m \in Managers |-> EmptyCache]
    /\ m_rl = [m \in Managers |-> NewEngine("a")]
    /\ m_ret = NoCall
    /\ fed = NoneFed
    /\ invocations = 0
    /\ nn_inputs = {}

\* create_tables on an empty database, AutoBetManager() for every manager,
\* each with the weights of its own random initialisation
LedgerInit ==
    /\ p_game = [g \in Games |-> Scheduled]
    /\ built = 0
    /\ db_matches = [g \in Games |-> NoRow]
    /\ db_deep = [g \in Games |-> NoRow]
    /\ db_bets = << >>
    /\ m_pc = [m \in Managers |-> "idle"]
    /\ m_loc = [m \in Managers |-> IdleLoc]
    /\ m_cache = [m \in Managers |-> EmptyCache]
    /\ \E w \in [Managers -> ManagerWeights] : m_rl = [m \in Managers |-> NewEngine(w[m])]
    /\ m_ret = NoCall
    /\ fed = NoneFed
    /\ invocations = 0
    /\ nn_inputs = {}

\* the provider reports a game as over: with completion 100, with
\* statusText 'Ended', or the one after the other
GameEnds(g, phase) ==
    /\ phase # Scheduled
    /\ p_game[g] # Ended
    /\ p_game[g] # phase
    /\ p_game' = [p_game EXCEPT ![g] = phase]
    /\ UNCHANGED <<built, db_matches, db_deep, db_bets, m_pc, m_loc, m_cache, m_rl, m_ret,
                   fed, invocations, nn_inputs>>
    /\ LedgerFrame

\* abm = AutoBetManager() of the dashboard script, which runs again at every
\* button press: the manager the next handler is invoked on is a new one
Construct(m, w) ==
    /\ m_pc[m] = "idle"
    /\ built < MaxBuilt
    /\ built' = built + 1
    /\ m_cache' = [m_cache EXCEPT ![m] = EmptyCache]
    /\ m_rl' = [m_rl EXCEPT ![m] = NewEngine(w)]
    /\ UNCHANGED <<p_game, db_matches, db_deep, db_bets, m_pc, m_loc, m_ret, fed,
                   invocations, nn_inputs>>
    /\ LedgerFrame

\* an invocation ends with an exception
Raised(m, e) ==
    /\ m_pc' = [m_pc EXCEPT ![m] = "idle"]
    /\ m_loc' = [m_loc EXCEPT ![m] = IdleLoc]
    /\ m_ret' = e

\* generate_daily_bets up to the loop: get_games, and return 0 without games
GenStart(m, confidence_threshold, max_bets, answers) ==
    /\ m_pc[m] = "idle"
    /\ invocations < MaxInvocations
    /\ invocations' = invocations + 1
    /\ \E answered \in answers :
          /\ LET games == IF answered
                          THEN [g \in Games |-> ProviderGame(g, p_game[g])]
                          ELSE << >>
             IN  IF games = << >>
                 THEN /\ m_ret' = [kind |-> "int", bets_placed |-> 0]
                      /\ UNCHANGED <<m_pc, m_loc>>
                 ELSE /\ m_pc' = [m_pc EXCEPT ![m] = "gen"]
                      /\ m_loc' = [m_loc EXCEPT ![m] =
                                     [IdleLoc EXCEPT !.games = games, !.i = 1,
                                                     !.max_bets = max_bets,
                                                     !.confidence_threshold = confidence_threshold]]
                      /\ UNCHANGED m_ret
    /\ UNCHANGED <<p_game, built, db_matches, db_deep, db_bets, m_cache, m_rl, fed, nn_inputs>>
    /\ LedgerFrame

\* one iteration of the loop of generate_daily_bets up to its first
\* statement: the request for the votes, odds, features, prediction and
\* selection; without a selection the loop goes on
GenPrice(m, answers) ==
    /\ m_pc[m] = "gen"
    /\ m_loc[m].i <= Len(m_loc[m].games)
    /\ m_loc[m].bets_placed < m_loc[m].max_bets
    /\ \E answered \in answers :
          /\ LET game_id == m_loc[m].games[m_loc[m].i].id
                 got     == get_game_details(m_cache[m], game_id, p_game[game_id], answered)
                 bet     == PricedGames[get_game_predictions(got.details), m_rl[m].weights,
                                        m_loc[m].confidence_threshold]
             IN  /\ m_cache' = [m_cache EXCEPT ![m] = got.cache]
                 /\ nn_inputs' = nn_inputs \cup
                        {[op |-> "predict", game_id |-> game_id, bet_id |-> 0,
                          features |-> bet.features]}
                 /\ IF Truthy(bet.selection)
                    THEN /\ m_pc' = [m_pc EXCEPT ![m] = "gen_match"]
                         /\ m_loc' = [m_loc EXCEPT ![m].bet = bet.placed]
                    ELSE /\ m_loc' = [m_loc EXCEPT ![m].i = @ + 1]
                         /\ UNCHANGED m_pc
    /\ UNCHANGED <<p_game, built, db_matches, db_deep, db_bets, m_rl, m_ret, fed, invocations>>
    /\ LedgerFrame

\* a statement of the try block raised: the except logs, and the loop goes
\* on with the next game without counting a bet; what was written stays
GenSkip(m) ==
    /\ m_pc' = [m_pc EXCEPT ![m] = "gen"]
    /\ m_loc' = [m_loc EXCEPT ![m].i = @ + 1, ![m].bet = NoBet]

\* save_match_data, first statement: the matches_historical row, with the
\* result if the game is finished
GenSaveMatch(m, outcomes) ==
    /\ m_pc[m] = "gen_match"
    /\ \E outcome \in outcomes :
          /\ LET game == m_loc[m].games[m_loc[m].i]
                 real_result == ScoreResult(game.home_score, game.away_score)
             IN  db_matches' = IF outcome = "ok"
                               THEN UpsertMatch(db_matches, game.id,
                                                IF is_finished(game) THEN real_result ELSE None)
                               ELSE db_matches
          /\ IF outcome = "raise"
             THEN GenSkip(m)
             ELSE /\ m_pc' = [m_pc EXCEPT ![m] = "gen_deep"]
                  /\ UNCHANGED m_loc
    /\ UNCHANGED <<p_game, built, db_deep, db_bets, m_cache, m_rl, m_ret, fed, invocations,
                   nn_inputs>>
    /\ LedgerFrame

\* save_match_data, second statement: the features_deep_data row
GenSaveDeep(m, outcomes) ==
    /\ m_pc[m] = "gen_deep"
    /\ \E outcome \in outcomes :
          /\ db_deep' = IF outcome = "ok"
                        THEN UpsertDeep(db_deep, db_matches, m_loc[m].games[m_loc[m].i].id,
                                        m_loc[m].bet.deep_data)
                        ELSE db_deep
          /\ IF outcome = "raise"
             THEN GenSkip(m)
             ELSE /\ m_pc' = [m_pc EXCEPT ![m] = "gen_bet"]
                  /\ UNCHANGED m_loc
    /\ UNCHANGED <<p_game, built, db_matches, db_bets, m_cache, m_rl, m_ret, fed, invocations,
                   nn_inputs>>
    /\ LedgerFrame

\* place_bet, and bets_placed += 1 when it returned
GenPlaceBet(m, outcomes) ==
    /\ m_pc[m] = "gen_bet"
    /\ \E outcome \in outcomes :
          /\ db_bets' = IF outcome = "ok"
                        THEN InsertBet(db_bets, db_matches, m_loc[m].games[m_loc[m].i].id,
                                       m_loc[m].bet.selection, m_loc[m].bet.chosen_odds,
                                       m_loc[m].bet.stake, m_loc[m].bet.expected_value)
                        ELSE db_bets
          /\ m_pc' = [m_pc EXCEPT ![m] = "gen"]
          /\ m_loc' = [m_loc EXCEPT ![m].i = @ + 1, ![m].bet = NoBet,
                                    ![m].bets_placed = IF outcome = "raise" THEN @ ELSE @ + 1,
                                    ![m].created = @ + Len(db_bets') - Len(db_bets)]
    /\ UNCHANGED <<p_game, built, db_matches, db_deep, m_cache, m_rl, m_ret, fed, invocations,
                   nn_inputs>>
    /\ LedgerFrame

\* the loop of generate_daily_bets is over, or broken at max_bets
GenFinish(m) ==
    /\ m_pc[m] = "gen"
    /\ \/ m_loc[m].i > Len(m_loc[m].games)
       \/ m_loc[m].bets_placed >= m_loc[m].max_bets
    /\ m_ret' = [kind |-> "int", bets_placed |-> m_loc[m].bets_placed]
    /\ m_pc' = [m_pc EXCEPT ![m] = "idle"]
    /\ m_loc' = [m_loc EXCEPT ![m] = IdleLoc]
    /\ UNCHANGED <<p_game, built, db_matches, db_deep, db_bets, m_cache, m_rl, fed, invocations,
                   nn_inputs>>
    /\ LedgerFrame

\* check_results_and_learn up to the loop: the snapshot of the pending
\* bets, get_pending_bets ending as `outcome`.  The handler has no try: a
\* statement that raises ends the invocation.
CheckEnter(m, outcomes) ==
    /\ m_pc[m] = "idle"
    /\ \E outcome \in outcomes :
          /\ LET pending == IF outcome = "ok"
                            THEN get_pending_bets(db_bets, db_matches) ELSE << >>
             IN  IF outcome = "raise"
                 THEN /\ m_ret' = Exception
                      /\ UNCHANGED <<m_pc, m_loc>>
                 ELSE IF pending = << >>
                 THEN /\ m_ret' = [kind |-> "tuple", resolved |-> 0, learned |-> 0]
                      /\ UNCHANGED <<m_pc, m_loc>>
                 ELSE /\ m_pc' = [m_pc EXCEPT ![m] = "check"]
                      /\ m_loc' = [m_loc EXCEPT ![m] =
                                     [IdleLoc EXCEPT !.pending = pending, !.i = 1]]
                      /\ UNCHANGED m_ret
    /\ UNCHANGED <<p_game, built, db_matches, db_deep, db_bets, m_cache, m_rl, fed, nn_inputs>>
    /\ LedgerFrame

\* an invocation of check_results_and_learn, counted ...
CheckStart(m, outcomes) ==
    /\ invocations < MaxInvocations
    /\ invocations' = invocations + 1
    /\ CheckEnter(m, outcomes)

\* ... and one more, when the counted invocations are used up: the handler
\* can be invoked again and again
CheckAgain(m, outcomes) ==
    /\ invocations = MaxInvocations
    /\ UNCHANGED invocations
    /\ CheckEnter(m, outcomes)

\* one iteration of the loop of check_results_and_learn up to its first
\* statement: the result the snapshot carries, or else the provider's
\* details; a bet without a result is left for a later invocation
CheckLookup(m, answers) ==
    /\ m_pc[m] = "check"
    /\ m_loc[m].i <= Len(m_loc[m].pending)
    /\ \E answered \in answers :
          /\ LET bet    == m_loc[m].pending[m_loc[m].i]
                 scrape == ~ Truthy(bet.db_result)
                 got    == IF scrape
                           THEN get_game_details(m_cache[m], bet.game_id, p_game[bet.game_id],
                                                 answered)
                           ELSE [details |-> NoDetails, cache |-> m_cache[m]]
                 ended  == scrape /\ got.details.statusText = "Ended"
                 final_result ==
                     IF ended
                     THEN ScoreResult(got.details.home_score, got.details.away_score)
                     ELSE bet.db_result
             IN  /\ m_cache' = [m_cache EXCEPT ![m] = got.cache]
                 /\ IF ended
                    THEN /\ m_pc' = [m_pc EXCEPT ![m] = "check_match"]
                         /\ m_loc' = [m_loc EXCEPT ![m].final_result = final_result]
                    ELSE IF ResultKnown(final_result)
                    THEN /\ m_pc' = [m_pc EXCEPT ![m] = "check_resolve"]
                         /\ m_loc' = [m_loc EXCEPT ![m].final_result = final_result]
                    ELSE /\ m_loc' = [m_loc EXCEPT ![m].i = @ + 1]
                         /\ UNCHANGED m_pc
    /\ UNCHANGED <<p_game, built, db_matches, db_deep, db_bets, m_rl, m_ret, fed, invocations,
                   nn_inputs>>
    /\ LedgerFrame

\* save_match_data(match_data) with the scraped result
CheckSaveMatch(m, outcomes) ==
    /\ m_pc[m] = "check_match"
    /\ \E outcome \in outcomes :
          /\ db_matches' = IF outcome = "ok"
                           THEN UpsertMatch(db_matches, m_loc[m].pending[m_loc[m].i].game_id,
                                            m_loc[m].final_result)
                           ELSE db_matches
          /\ IF outcome = "raise"
             THEN Raised(m, Exception)
             ELSE /\ m_pc' = [m_pc EXCEPT ![m] = "check_resolve"]
                  /\ UNCHANGED <<m_loc, m_ret>>
    /\ UNCHANGED <<p_game, built, db_deep, db_bets, m_cache, m_rl, fed, invocations, nn_inputs>>
    /\ LedgerFrame

\* won, pnl, status, resolve_bet, resolved_count += 1
CheckResolve(m, outcomes) ==
    /\ m_pc[m] = "check_resolve"
    /\ \E outcome \in outcomes :
          /\ LET bet == m_loc[m].pending[m_loc[m].i]
                 won == bet.selection = m_loc[m].final_result
             IN  db_bets' = IF outcome = "ok"
                            THEN resolve_bet(db_bets, bet.bet_id,
                                             IF won THEN "WON" ELSE "LOST",
                                             BetPnls[[stake |-> bet.stake, odds |-> bet.odds], won])
                            ELSE db_bets
          /\ IF outcome = "raise"
             THEN Raised(m, Exception)
             ELSE /\ m_pc' = [m_pc EXCEPT ![m] = "check_learn"]
                  /\ m_loc' = [m_loc EXCEPT ![m].resolved_count = @ + 1]
                  /\ UNCHANGED m_ret
    /\ UNCHANGED <<p_game, built, db_matches, db_deep, m_cache, m_rl, fed, invocations,
                   nn_inputs>>
    /\ LedgerFrame

\* the SELECT of the features: no row, or an exception, or the row handed
\* to train_step, whose exception ends the invocation.  mark_bet_as_learned
\* and learned_count += 1 come after a train_step that returns.
CheckLearn(m, outcomes) ==
    /\ m_pc[m] = "check_learn"
    /\ \E outcome \in outcomes, marked \in outcomes :
          LET bet  == m_loc[m].pending[m_loc[m].i]
              target_idx == CASE m_loc[m].final_result = "1" -> 0
                              [] m_loc[m].final_result = "2" -> 2
                              [] OTHER -> 1
          IN  IF outcome = "raise"
              THEN /\ Raised(m, Exception)
                   /\ UNCHANGED <<db_bets, m_rl, fed, nn_inputs>>
              ELSE IF outcome = "error" \/ ~ db_deep[bet.game_id].present
              THEN /\ m_loc' = [m_loc EXCEPT ![m].i = @ + 1, ![m].final_result = None]
                   /\ m_pc' = [m_pc EXCEPT ![m] = "check"]
                   /\ UNCHANGED <<db_bets, m_rl, m_ret, fed, nn_inputs>>
              ELSE /\ fed' = Feed(fed, bet.bet_id)
                   /\ nn_inputs' = nn_inputs \cup
                          {[op |-> "train_step", game_id |-> bet.game_id,
                            bet_id |-> bet.bet_id,
                            features |-> RowFeatures[db_deep[bet.game_id].row]]}
                   /\ LET trained == train_step(m_rl[m], RowFeatures[db_deep[bet.game_id].row],
                                                target_idx)
                      IN  /\ m_rl' = [m_rl EXCEPT ![m] = trained.rl]
                          /\ IF trained.kind = "raise"
                             THEN /\ Raised(m, [kind |-> "raise", error |-> trained.error])
                                  /\ UNCHANGED db_bets
                             ELSE IF marked = "raise"
                             THEN /\ Raised(m, Exception)
                                  /\ UNCHANGED db_bets
                             ELSE /\ db_bets' = IF marked = "ok"
                                                THEN mark_bet_as_learned(db_bets, bet.bet_id)
                                                ELSE db_bets
                                  /\ m_pc' = [m_pc EXCEPT ![m] = "check"]
                                  /\ m_loc' = [m_loc EXCEPT ![m].i = @ + 1,
                                                            ![m].final_result = None,
                                                            ![m].learned_count = @ + 1]
                                  /\ UNCHANGED m_ret
    /\ UNCHANGED <<p_game, built, db_matches, db_deep, m_cache, invocations>>
    /\ LedgerFrame

\* after the loop: save_model if anything was learned, return the counts
CheckFinish(m) ==
    /\ m_pc[m] = "check"
    /\ m_loc[m].i > Len(m_loc[m].pending)
    /\ m_rl' = [m_rl EXCEPT ![m].saved = @ \/ m_loc[m].learned_count > 0]
    /\ m_ret' = [kind |-> "tuple", resolved |-> m_loc[m].resolved_count,
                  learned |-> m_loc[m].learned_count]
    /\ m_pc' = [m_pc EXCEPT ![m] = "idle"]
    /\ m_loc' = [m_loc EXCEPT ![m] = IdleLoc]
    /\ UNCHANGED <<p_game, built, db_matches, db_deep, db_bets, m_cache, fed, invocations,
                   nn_inputs>>
    /\ LedgerFrame

\* every way the provider and the database can behave
Answers == BOOLEAN

LedgerNext ==
    \/ \E g \in Games, phase \in Phases : GameEnds(g, phase)
    \/ \E m \in Managers, w \in ManagerWeights : Construct(m, w)
    \/ \E m \in Managers, t \in Thresholds, b \in MaxBetsArgs : GenStart(m, t, b, Answers)
    \/ \E m \in Managers : GenPrice(m, Answers)
    \/ \E m \in Managers : GenSaveMatch(m, DbOutcomes)
    \/ \E m \in Managers : GenSaveDeep(m, DbOutcomes)
    \/ \E m \in Managers : GenPlaceBet(m, DbOutcomes)
    \/ \E m \in Managers : GenFinish(m)
    \/ \E m \in Managers : CheckStart(m, DbOutcomes)
    \/ \E m \in Managers : CheckLookup(m, Answers)
    \/ \E m \in Managers : CheckSaveMatch(m, DbOutcomes)
    \/ \E m \in Managers : CheckResolve(m, DbOutcomes)
    \/ \E m \in Managers : CheckLearn(m, DbOutcomes)
    \/ \E m \in Managers : CheckFinish(m)
(***************************************************************************)
(* rl_engine.py : one RLEngine and its snapshot file.                      *)
(*                                                                         *)
(* The tensors are not modelled.  The network's parameters are one of the  *)
(* Weights above, an optimizer update moves them to other ones, and what   *)
(* is kept of the rest of the state is what can be counted: the batches    *)
(* BatchNorm1d has tracked, the updates Adam and the scheduler have made,  *)
(* the entries of training_history and of memory.  What is kept exactly is *)
(* the control flow: which statement raises, and what has already been     *)
(* assigned when it does.                                                  *)
(***************************************************************************)

\* calls one engine receives in the model
MaxRlCalls == 4

\* build_anonymous_features: the 14 arguments in order, the loads divided by
\* 900.0 and the days of rest by 7.0, each capped with min(..., 1.0)
build_anonymous_features(a) ==
    << a.home_goals_scored, a.away_goals_scored,
       a.home_goals_conceded, a.away_goals_conceded,
       a.home_form, a.away_form,
       PyMin(F64Div(a.home_minutes_load, Float(900, 1)), F64One),
       PyMin(F64Div(a.away_minutes_load, Float(900, 1)), F64One),
       a.home_motivation, a.away_motivation,
       PyMin(F64Div(a.home_days_rest, Float(7, 1)), F64One),
       PyMin(F64Div(a.away_days_rest, Float(7, 1)), F64One),
       a.wind_factor, a.rain_factor >>

\* arguments of build_anonymous_features: those of the module's own run, and
\* numbers outside the ranges its comments name
MainArgs ==
    [home_goals_scored |-> Float(18, 10), away_goals_scored |-> Float(12, 10),
     home_goals_conceded |-> Float(8, 10), away_goals_conceded |-> Float(15, 10),
     home_form |-> Float(73, 100), away_form |-> Float(40, 100),
     home_minutes_load |-> Float(450, 1), away_minutes_load |-> Float(620, 1),
     home_motivation |-> Float(8, 10), away_motivation |-> Float(5, 10),
     home_days_rest |-> Float(4, 1), away_days_rest |-> Float(3, 1),
     wind_factor |-> Float(15, 100), rain_factor |-> Float(5, 100)]

RlRawInputs ==
    { MainArgs,
      [MainArgs EXCEPT !.home_minutes_load = Float(-90, 1),
                       !.away_minutes_load = Float(1350, 1),
                       !.home_motivation = Float(15, 10),
                       !.away_days_rest = Float(10, 1),
                       !.wind_factor = Float(12, 10)] }

\* the feature vectors handed to predict and train_step: those
\* generate_daily_bets derives from odds, and those of build_anonymous_features
RlFeatures ==
    { BuildFeatures(PlaceholderOdds),
      BuildFeatures(Floats(Triple(320, 340, 210), OddsScale)) }
    \cup { build_anonymous_features(a) : a \in RlRawInputs }

\* target_idx as callers may pass it; the classes are 0, 1, 2
RlTargets == {0, 1, 2, 3}
ValidTargets == {0, 1, 2}

\* (batch_features, batch_targets) of train_on_batch: the number of feature
\* vectors and the target list
RlBatches ==
    { [size |-> 1, targets |-> << 0 >>],
      [size |-> 2, targets |-> << 0, 2 >>],
      [size |-> 2, targets |-> << 1 >>],
      [size |-> 2, targets |-> << 1, 3 >>] }

\* RLEngine.__init__ before _load_model: a randomly initialised network in
\* training mode (nn.Module's default), a new Adam and scheduler, empty
\* memory and training_history
FreshEngine(w) ==
    [weights |-> w, num_batches_tracked |-> 0, opt_steps |-> 0, sched_steps |-> 0,
     training |-> TRUE, training_history |-> 0, memory |-> 0]

NoEngine == FreshEngine("none")

\* self.model.eval() / self.model.train()
model_eval_Skipped(rl) == rl
model_eval(rl) == [rl EXCEPT !.training = FALSE]
model_train(rl) == [rl EXCEPT !.training = TRUE]

\* optimizer.step(): the parameters move, Adam counts the step
optimizer_step(rl) ==
    [rl EXCEPT !.weights = CASE @ = "a" -> "b" [] @ = "b" -> "c" [] OTHER -> "a",
               !.opt_steps = @ + 1]

\* OddsAbsoluteRNN.forward on a batch of `batch` rows.  bn1 in training mode
\* counts the batch, then raises ValueError for a batch of one and otherwise
\* updates its running statistics; in eval mode it reads them.
forward(rl, batch) ==
    IF rl.training
    THEN IF batch < 2
         THEN [kind |-> "raise", error |-> "ValueError", rl |-> CountBatch(rl)]
         ELSE [kind |-> "tensor", rl |-> CountBatch(rl)]
    ELSE [kind |-> "tensor", rl |-> rl]

\* AbsoluteLoss.forward: CrossEntropyLoss raises ValueError when the batch
\* sizes differ and IndexError for a target outside the classes
criterion(batch, targets) ==
    IF Len(targets) # batch THEN [kind |-> "raise", error |-> "ValueError"]
    ELSE IF \E i \in 1 .. Len(targets) : targets[i] \notin ValidTargets
    THEN [kind |-> "raise", error |-> "IndexError"]
    ELSE [kind |-> "tensor"]

\* RLEngine.predict: eval mode, one forward pass of (1, seq_len, 14) under
\* no_grad, the three probabilities rounded to 4 decimals
rl_predict(rl, features) ==
    LET r1  == model_eval(rl)
        out == forward(r1, TrainInputShape(features)[1])
    IN  IF out.kind = "raise"
        THEN [kind |-> "raise", error |-> out.error, rl |-> out.rl]
        ELSE [kind |-> "probs", probs |-> predict(out.rl.weights, features),
              rl |-> out.rl]

\* RLEngine.train_step from model.train() on
rl_train_step(rl, features, target_idx) == train_step(model_train(rl), features, target_idx)

\* RLEngine.train_on_batch: train mode, forward, loss, backward, clipped
\* optimizer step, scheduler step; returns the loss.  Neither
\* training_history nor memory is written.
train_on_batch(rl, batch) ==
    LET r1   == model_train(rl)
        out  == forward(r1, batch.size)
        loss == criterion(batch.size, batch.targets)
    IN  IF out.kind = "raise"
        THEN [kind |-> "raise", error |-> out.error, rl |-> out.rl]
        ELSE IF loss.kind = "raise"
        THEN [kind |-> "raise", error |-> loss.error, rl |-> out.rl]
        ELSE [kind |-> "float",
              rl |-> [optimizer_step(out.rl) EXCEPT !.sched_steps = @ + 1]]

\* RLEngine.experience_replay: None while memory holds fewer than batch_size
\* examples, else train_on_batch on a sample of batch_size of them
experience_replay(rl, batch_size, sample) ==
    IF rl.memory < batch_size
    THEN [kind |-> "None", rl |-> rl]
    ELSE train_on_batch(rl, [size |-> batch_size, targets |-> sample])

\* RLEngine.get_model_metrics: total_steps is len(self.training_history)
get_model_metrics(rl) == [total_steps |-> rl.training_history]

\* the file at MODEL_PATH.  A snapshot's entries are what save_model wrote,
\* or Missing / Incompatible for a file of another version.
Missing == [entry |-> "missing"]
Incompatible == [entry |-> "incompatible"]
NoFile == [kind |-> "absent"]
PartialFile == [kind |-> "partial"]
UnreadableFile == [kind |-> "unreadable"]

\* the dict save_model hands to torch.save
Snapshot(rl) ==
    [kind |-> "snapshot",
     model_state |-> [entry |-> "state_dict", weights |-> rl.weights,
                      num_batches_tracked |-> rl.num_batches_tracked],
     optimizer_state |-> [entry |-> "state_dict", opt_steps |-> rl.opt_steps],
     training_history |-> rl.training_history,
     memory_size |-> rl.memory]

\* files found at MODEL_PATH when the first engine is constructed
RlFiles ==
    { NoFile, UnreadableFile, Snapshot(optimizer_step(FreshEngine("b"))) }
    \cup { [Snapshot(optimizer_step(FreshEngine("b"))) EXCEPT !.optimizer_state = bad] :
               bad \in {Missing, Incompatible} }
    \cup { [Snapshot(optimizer_step(FreshEngine("b"))) EXCEPT !.model_state = bad] :
               bad \in {Missing, Incompatible} }

\* RLEngine._load_model on a fresh engine.  Every exception is caught, but
\* what the statements before it assigned stays: load_state_dict of the
\* model copies every tensor whose shape fits before it raises, and the
\* optimizer entry is read after the model's has been loaded.
load_model(rl, file) ==
    IF file.kind = "absent" THEN [load |-> "absent", rl |-> rl]
    ELSE IF file.kind # "snapshot" THEN [load |-> "failed", rl |-> rl]
    ELSE IF file.model_state.entry = "missing" THEN [load |-> "failed", rl |-> rl]
    ELSE IF file.model_state.entry = "incompatible"
    THEN [load |-> "failed", rl |-> [rl EXCEPT !.weights = "mixed"]]
    ELSE LET r1 == [rl EXCEPT !.weights = file.model_state.weights,
                              !.num_batches_tracked =
                                  file.model_state.num_batches_tracked]
         IN  IF file.optimizer_state.entry # "state_dict"
             THEN [load |-> "failed", rl |-> r1]
             ELSE [load |-> "loaded",
                   rl |-> [r1 EXCEPT !.opt_steps = file.optimizer_state.opt_steps,
                                     !.training_history = file.training_history]]

RlNoCall == [op |-> "none", kind |-> "none"]

RlParked ==
    /\ rl_eng = NoEngine
    /\ rl_pc = "down"
    /\ rl_file = NoFile
    /\ rl_ret = RlNoCall
    /\ rl_calls = 0
    /\ rl_seen = << >>

\* before the first RLEngine(): whatever file is at MODEL_PATH
RlInit ==
    /\ rl_eng = NoEngine
    /\ rl_pc = "down"
    /\ rl_file \in RlFiles
    /\ rl_ret = RlNoCall
    /\ rl_calls = 0
    /\ rl_seen = << >>

\* RLEngine(): __init__ with its _load_model
RlConstruct(w) ==
    /\ rl_pc = "down"
    /\ rl_calls < MaxRlCalls
    /\ rl_calls' = rl_calls + 1
    /\ LET loaded == load_model(FreshEngine(w), rl_file)
       IN  /\ rl_eng' = loaded.rl
           /\ rl_ret' = [op |-> "__init__", kind |-> "None", load |-> loaded.load,
                         fresh |-> FreshEngine(w)]
    /\ rl_pc' = "idle"
    /\ rl_seen' = << >>
    /\ UNCHANGED rl_file
    /\ RlFrame

\* predict(features)
RlPredict(features) ==
    /\ rl_pc = "idle"
    /\ rl_calls < MaxRlCalls
    /\ rl_calls' = rl_calls + 1
    /\ LET out == rl_predict(rl_eng, features)
       IN  /\ rl_eng' = out.rl
           /\ rl_ret' = [op |-> "predict", kind |-> out.kind, features |-> features,
                         value |-> IF out.kind = "probs" THEN out.probs ELSE out.error]
           /\ rl_seen' = Append(rl_seen, [features |-> features, kind |-> out.kind,
                               value |-> IF out.kind = "probs" THEN out.probs
                                         ELSE out.error])
    /\ UNCHANGED <<rl_pc, rl_file>>
    /\ RlFrame

\* train_step(features, target_idx)
RlTrainStep(features, target_idx) ==
    /\ rl_pc = "idle"
    /\ rl_calls < MaxRlCalls
    /\ rl_calls' = rl_calls + 1
    /\ LET out == rl_train_step(rl_eng, features, target_idx)
       IN  /\ rl_eng' = out.rl
           /\ rl_ret' = [op |-> "train_step", kind |-> out.kind,
                         features |-> features, target_idx |-> target_idx,
                         value |-> IF out.kind = "raise" THEN out.error ELSE "loss"]
    /\ rl_seen' = << >>
    /\ UNCHANGED <<rl_pc, rl_file>>
    /\ RlFrame

\* train_on_batch(batch_features, batch_targets)
RlTrainOnBatch(batch) ==
    /\ rl_pc = "idle"
    /\ rl_calls < MaxRlCalls
    /\ rl_calls' = rl_calls + 1
    /\ LET out == train_on_batch(rl_eng, batch)
       IN  /\ rl_eng' = out.rl
           /\ rl_ret' = [op |-> "train_on_batch", kind |-> out.kind,
                         value |-> IF out.kind = "raise" THEN out.error ELSE "loss"]
    /\ rl_seen' = << >>
    /\ UNCHANGED <<rl_pc, rl_file>>
    /\ RlFrame

\* experience_replay(batch_size), with the sample np.random.choice draws
RlExperienceReplay(batch_size, sample) ==
    /\ rl_pc = "idle"
    /\ rl_calls < MaxRlCalls
    /\ rl_calls' = rl_calls + 1
    /\ LET out == experience_replay(rl_eng, batch_size, sample)
       IN  /\ rl_eng' = out.rl
           /\ rl_ret' = [op |-> "experience_replay", kind |-> out.kind,
                         value |-> IF out.kind = "raise" THEN out.error
                                   ELSE IF out.kind = "None" THEN "None" ELSE "loss"]
           /\ rl_seen' = IF out.kind = "None" THEN rl_seen ELSE << >>
    /\ UNCHANGED <<rl_pc, rl_file>>
    /\ RlFrame

\* get_model_metrics()
RlGetModelMetrics ==
    /\ rl_pc = "idle"
    /\ rl_calls < MaxRlCalls
    /\ rl_calls' = rl_calls + 1
    /\ rl_ret' = [op |-> "get_model_metrics", kind |-> "dict",
                  value |-> get_model_metrics(rl_eng)]
    /\ UNCHANGED <<rl_eng, rl_pc, rl_file, rl_seen>>
    /\ RlFrame

\* save_model() fails before the file is opened (os.makedirs, or the open
\* of torch.save, raises OSError): the file stays as it is
RlSaveRefused ==
    /\ rl_pc = "idle"
    /\ rl_calls < MaxRlCalls
    /\ rl_calls' = rl_calls + 1
    /\ rl_ret' = [op |-> "save_model", kind |-> "raise", value |-> "OSError"]
    /\ UNCHANGED <<rl_eng, rl_pc, rl_file, rl_seen>>
    /\ RlFrame

\* save_model(): makedirs, then torch.save opens MODEL_PATH for writing,
\* which empties it ...
RlSaveOpen ==
    /\ rl_pc = "idle"
    /\ rl_calls < MaxRlCalls
    /\ rl_calls' = rl_calls + 1
    /\ rl_pc' = "saving"
    /\ rl_file' = PartialFile
    /\ rl_ret' = [op |-> "save_model", kind |-> "running", value |-> "None"]
    /\ UNCHANGED <<rl_eng, rl_seen>>
    /\ RlFrame

\* ... and writes the pickled dict into it and closes it
RlSaveWrite ==
    /\ rl_pc = "saving"
    /\ rl_pc' = "idle"
    /\ rl_file' = Snapshot(rl_eng)
    /\ rl_ret' = [op |-> "save_model", kind |-> "None", value |-> "None"]
    /\ UNCHANGED <<rl_eng, rl_calls, rl_seen>>
    /\ RlFrame

\* ... unless a write fails: the exception leaves save_model, the file stays
RlSaveFails ==
    /\ rl_pc = "saving"
    /\ rl_pc' = "idle"
    /\ rl_ret' = [op |-> "save_model", kind |-> "raise", value |-> "OSError"]
    /\ UNCHANGED <<rl_eng, rl_file, rl_calls, rl_seen>>
    /\ RlFrame

\* the process ends, at any statement; the file stays as it is
RlCrash ==
    /\ rl_pc # "down"
    /\ rl_pc' = "down"
    /\ rl_eng' = NoEngine
    /\ rl_ret' = [op |-> "crash", kind |-> "none", value |-> rl_pc]
    /\ rl_seen' = << >>
    /\ UNCHANGED <<rl_file, rl_calls>>
    /\ RlFrame

RlSamples == { << 0 >>, << 0, 2 >> }

RlNext ==
    \/ \E w \in Weights : RlConstruct(w)
    \/ \E f \in RlFeatures : RlPredict(f)
    \/ \E f \in RlFeatures, t \in RlTargets : RlTrainStep(f, t)
    \/ \E b \in RlBatches : RlTrainOnBatch(b)
    \/ \E s \in RlSamples : RlExperienceReplay(Len(s), s)
    \/ RlGetModelMetrics
    \/ RlSaveRefused
    \/ RlSaveOpen
    \/ RlSaveWrite
    \/ RlSaveFails
    \/ RlCrash

(***************************************************************************)
(* simulator.py : ValueSimulator.run_monte_carlo.                          *)
(*                                                                         *)
(* Bankrolls are exact fractions of a unit.  The bankrolls, stake          *)
(* percentages and odds of the model are binary fractions, for which the   *)
(* program's floating-point arithmetic is exact too; the constructor takes *)
(* any bankroll, one under the floor of one unit included.  np.random.choice is  *)
(* a free choice of the outcome vector.  _calculate_sharpe, the            *)
(* percentiles and the mean and median of the final bankrolls (numpy over  *)
(* floats) are not modelled; the lists they read are.  max_drawdown_avg is *)
(* in hundredths of a percent.                                             *)
(***************************************************************************)

\* ValueSimulator(bankroll, iterations) and run_monte_carlo(..., num_bets)
\* as constructed and called in the model
McIterations == 2
MaxNumBets == 3

McBankrolls == {[num |-> 1, den |-> 2], [num |-> 2, den |-> 1], [num |-> 4, den |-> 1]}
McOdds == {200, 300}
McStakePcts == {0, 25, 50, 75}
McWinProbs == {0, 5000}

FracLt(x, y) == x.num * y.den < y.num * x.den
FracAdd(x, y) == Frac(x.num * y.den + y.num * x.den, x.den * y.den)
FracNeg(x) == [num |-> - x.num, den |-> x.den]
One == Frac(1, 1)

\* stake = current_bank * stake_pct
StakeOf(current_bank, stake_pct) == FracMul(current_bank, Frac(stake_pct, 100))

\* profit = stake * (odds - 1) if win else -stake
ProfitOf(stake, odds, win) ==
    IF win = 1 THEN FracMul(stake, Frac(odds - OddsScale, OddsScale))
    ELSE FracNeg(stake)

\* if current_bank < 1.0: ruin_count += 1; break
IsRuined(current_bank) == FracLt(current_bank, One)

\* one pass of the loop over outcomes: the bankroll after the bet and its
\* percentage return profit / max(current_bank - profit, 1)
ApplyBet(current_bank, stake_pct, odds, win) ==
    LET stake  == StakeOf(current_bank, stake_pct)
        profit == ProfitOf(stake, odds, win)
        bank   == FracAdd(current_bank, profit)
        before == FracAdd(bank, FracNeg(profit))
        floor  == IF FracLt(before, One) THEN One ELSE before
    IN  [current_bank |-> bank,
         pct_return |-> Frac(profit.num * floor.den, profit.den * floor.num)]

\* the whole loop over outcomes from bet k on: the path it leaves
RECURSIVE RunPath(_, _, _, _, _)
RunPath(path, stake_pct, odds, outcomes, k) ==
    IF k > Len(outcomes) THEN path
    ELSE LET bet == ApplyBet(path[Len(path)], stake_pct, odds, outcomes[k])
             p1  == Append(path, bet.current_bank)
         IN  IF IsRuined(bet.current_bank) THEN p1
             ELSE RunPath(p1, stake_pct, odds, outcomes, k + 1)

\* np.random.choice([1, 0], size=num_bets, p=[p_win, 1 - p_win])
PossibleOutcomes(p_win, num_bets) ==
    { o \in [1 .. num_bets -> {0, 1}] :
        /\ p_win = 0 => \A i \in 1 .. num_bets : o[i] = 0
        /\ p_win = ProbScale => \A i \in 1 .. num_bets : o[i] = 1 }

\* the sum of a list of exact numbers
RECURSIVE FracSum(_)
FracSum(s) ==
    IF s = << >> THEN Frac(0, 1) ELSE FracAdd(s[1], FracSum(Tail(s)))

\* _avg_max_drawdown(final_bankrolls): the mean, over the final bankrolls
\* below the starting bankroll, of (bankroll_start - b) / bankroll_start * 100
_avg_max_drawdown(self, final_bankrolls) ==
    LET start        == self.bankroll_start
        below_start  == SelectSeq(final_bankrolls, LAMBDA b : FracLt(b, start))
        worst_losses == [i \in 1 .. Len(below_start) |->
                           FracMul(FracAdd(start, FracNeg(below_start[i])),
                                   Frac(100 * start.den, start.num))]
    IN  IF Len(below_start) = 0 THEN Frac(0, 1)
        ELSE FracMul(FracSum(worst_losses), Frac(1, Len(worst_losses)))

McIdle == [pc |-> "idle"]

McParked ==
    /\ mc_self = [bankroll_start |-> [num |-> 0, den |-> 1], iterations |-> 0]
    /\ mc_loc = McIdle
    /\ mc_ret = NoCall

\* ValueSimulator(bankroll, iterations)
McInit ==
    /\ mc_self \in [bankroll_start : McBankrolls, iterations : {McIterations}]
    /\ mc_loc = McIdle
    /\ mc_ret = NoCall

\* run_monte_carlo up to the loop over iterations
McRunMonteCarlo(p_win, odds, stake_pct, num_bets) ==
    /\ mc_loc.pc = "idle"
    /\ mc_ret = NoCall
    /\ mc_loc' = [pc |-> "path", p_win |-> p_win, odds |-> odds,
                  stake_pct |-> stake_pct, num_bets |-> num_bets,
                  iteration |-> 0, results |-> << >>, ruin_count |-> 0,
                  all_returns |-> 0, paths |-> << >>,
                  current_bank |-> One, path |-> << >>, path_returns |-> << >>,
                  outcomes |-> << >>, k |-> 0]
    /\ UNCHANGED <<mc_self, mc_ret>>
    /\ McFrame

\* the head of one iteration: the starting bankroll and the outcome vector
McStartPath ==
    /\ mc_loc.pc = "path"
    /\ mc_loc.iteration < mc_self.iterations
    /\ \E outcomes \in PossibleOutcomes(mc_loc.p_win, mc_loc.num_bets) :
          mc_loc' = [mc_loc EXCEPT
                       !.pc = IF mc_loc.num_bets = 0 THEN "endpath" ELSE "bet",
                       !.current_bank = mc_self.bankroll_start,
                       !.path = << mc_self.bankroll_start >>,
                       !.path_returns = << >>,
                       !.outcomes = outcomes,
                       !.k = 1]
    /\ UNCHANGED <<mc_self, mc_ret>>
    /\ McFrame

\* one bet of the path, with the ruin test that ends the path
McBet ==
    /\ mc_loc.pc = "bet"
    /\ LET bet    == ApplyBet(mc_loc.current_bank, mc_loc.stake_pct, mc_loc.odds,
                              mc_loc.outcomes[mc_loc.k])
           ruined == IsRuined(bet.current_bank)
       IN  mc_loc' = [mc_loc EXCEPT
                        !.current_bank = bet.current_bank,
                        !.path = Append(@, bet.current_bank),
                        !.path_returns = Append(@, bet.pct_return),
                        !.ruin_count = IF ruined THEN @ + 1 ELSE @,
                        !.k = @ + 1,
                        !.pc = IF ruined \/ mc_loc.k = mc_loc.num_bets
                               THEN "endpath" ELSE "bet"]
    /\ UNCHANGED <<mc_self, mc_ret>>
    /\ McFrame

\* the tail of one iteration: results.append(path[-1]),
\* all_returns.extend(path_returns); paths keeps the finished paths, which
\* the program drops
McEndPath ==
    /\ mc_loc.pc = "endpath"
    /\ mc_loc' = [mc_loc EXCEPT
                    !.pc = "path",
                    !.iteration = @ + 1,
                    !.results = Append(@, mc_loc.path[Len(mc_loc.path)]),
                    !.paths = Append(@, mc_loc.path),
                    !.all_returns = @ + Len(mc_loc.path_returns)]
    /\ UNCHANGED <<mc_self, mc_ret>>
    /\ McFrame

\* after the loop: prob_ruin = ruin_count / iterations, and the report
McReturn ==
    /\ mc_loc.pc = "path"
    /\ mc_loc.iteration >= mc_self.iterations
    /\ mc_ret' = [kind |-> "dict",
                  prob_ruin |-> RoundRatio(mc_loc.ruin_count * ProbScale,
                                              mc_self.iterations),
                  ruin_count |-> mc_loc.ruin_count,
                  results |-> mc_loc.results,
                  paths |-> mc_loc.paths,
                  max_drawdown_avg |->
                      LET avg == _avg_max_drawdown(mc_self, mc_loc.results)
                      IN  RoundRatio(avg.num * 100, avg.den),
                  iterations |-> mc_self.iterations,
                  stake_pct |-> mc_loc.stake_pct, odds |-> mc_loc.odds]
    /\ mc_loc' = McIdle
    /\ UNCHANGED mc_self
    /\ McFrame

McNext ==
    \/ \E p \in McWinProbs, o \in McOdds, s \in McStakePcts, n \in 0 .. MaxNumBets :
          McRunMonteCarlo(p, o, s, n)
    \/ McStartPath
    \/ McBet
    \/ McEndPath
    \/ McReturn

(***************************************************************************)
(* dixon_coles.py : DixonColesModel                                        *)
(*                                                                         *)
(* Expected goals and rho are exact fractions.  poisson.pmf(k, mu) is      *)
(* e^-mu * mu^k / k!; the factor e^-home * e^-away is the same in every    *)
(* cell of prob_matrix and leaves it in the division by prob_matrix.sum(), *)
(* so the cells are kept in units of that factor.  The returned values are *)
(* in ten-thousandths, as round(., 4) leaves them.                         *)
(***************************************************************************)

\* x + y and x - y with the least common denominator
FracPlus(x, y) ==
    LET g == Gcd(x.den, y.den)
    IN  Frac(x.num * (y.den \div g) + y.num * (x.den \div g), (x.den \div g) * y.den)
FracMinus(x, y) == FracPlus(x, [num |-> - y.num, den |-> y.den])

\* x * y, reduced before multiplying
FracTimes(x, y) ==
    LET g1 == Gcd(Abs(x.num), y.den)
        g2 == Gcd(Abs(y.num), x.den)
    IN  IF x.num = 0 \/ y.num = 0 THEN Frac(0, 1)
        ELSE [num |-> (x.num \div g1) * (y.num \div g2),
              den |-> (x.den \div g2) * (y.den \div g1)]

\* x / y  (y # 0)
FracDiv(x, y) ==
    IF y.num > 0 THEN FracTimes(x, [num |-> y.den, den |-> y.num])
    ELSE FracTimes(x, [num |-> - y.den, den |-> - y.num])

RECURSIVE Factorial(_)
Factorial(k) == IF k = 0 THEN 1 ELSE k * Factorial(k - 1)

RECURSIVE FracPow(_, _)
FracPow(x, k) == IF k = 0 THEN Frac(1, 1) ELSE FracTimes(x, FracPow(x, k - 1))

\* poisson.pmf(k, mu), in units of e^-mu (pmf(0, 0) is 1, pmf(k, 0) is 0)
poisson_pmf(k, mu) == FracTimes(FracPow(mu, k), Frac(1, Factorial(k)))

\* tau(x, y, mu, lamb, rho)
tau(x, y, mu, lamb, rho) ==
    IF x = 0 /\ y = 0 THEN FracMinus(Frac(1, 1), FracTimes(FracTimes(mu, lamb), rho))
    ELSE IF x = 0 /\ y = 1 THEN FracPlus(Frac(1, 1), FracTimes(mu, rho))
    ELSE IF x = 1 /\ y = 0 THEN FracPlus(Frac(1, 1), FracTimes(lamb, rho))
    ELSE IF x = 1 /\ y = 1 THEN FracMinus(Frac(1, 1), rho)
    ELSE Frac(1, 1)

\* prob_matrix[x, y] = p_x * p_y * adjustment
prob_matrix(home_exp_goals, away_exp_goals, rho, x, y) ==
    FracTimes(FracTimes(poisson_pmf(x, home_exp_goals), poisson_pmf(y, away_exp_goals)),
            tau(x, y, home_exp_goals, away_exp_goals, rho))

\* np.sum over a set of cells
RECURSIVE SumCells(_, _, _, _)
SumCells(home_exp_goals, away_exp_goals, rho, cells) ==
    IF cells = {} THEN Frac(0, 1)
    ELSE LET c == CHOOSE c \in cells : TRUE
         IN  FracPlus(prob_matrix(home_exp_goals, away_exp_goals, rho, c[1], c[2]),
                      SumCells(home_exp_goals, away_exp_goals, rho, cells \ {c}))

\* the cells of the matrix, and those np.tril(., -1), np.diag and
\* np.triu(., 1) keep
Cells(max_goals) == (0 .. (max_goals - 1)) \X (0 .. (max_goals - 1))
Tril(max_goals) == {c \in Cells(max_goals) : c[1] > c[2]}
Diag(max_goals) == {c \in Cells(max_goals) : c[1] = c[2]}
Triu(max_goals) == {c \in Cells(max_goals) : c[1] < c[2]}

\* round(v, 4) of a fraction, in ten-thousandths
Round4(v) ==
    IF v.num >= 0 THEN MulRound(ProbScale, v)
    ELSE - MulRound(ProbScale, [num |-> - v.num, den |-> v.den])

\* calculate_match_probabilities(home_exp_goals, away_exp_goals, max_goals)
calculate_match_probabilities(self, home_exp_goals, away_exp_goals, max_goals) ==
    LET sum(cells) == SumCells(home_exp_goals, away_exp_goals, self.rho, cells)
        total      == sum(Cells(max_goals))
    IN  IF total.num = 0
        THEN \* 0 / 0 in prob_matrix /= prob_matrix.sum()
             [kind |-> "nan"]
        ELSE [kind |-> "dict",
              probs |-> Triple(Round4(FracDiv(sum(Tril(max_goals)), total)),
                               Round4(FracDiv(sum(Diag(max_goals)), total)),
                               Round4(FracDiv(sum(Triu(max_goals)), total)))]

\* the expected goals, dependence parameters and matrix sizes of the model
DcExpGoals == { Frac(0, 1), Frac(1, 4), Frac(1, 2), Frac(1, 1), Frac(3, 2),
                Frac(2, 1), Frac(6, 1) }
DcRhos     == { Frac(-1, 2), Frac(-1, 4), Frac(0, 1), Frac(1, 4), Frac(1, 2) }
DcMaxGoals == { 3, 4 }

DcParked ==
    /\ dc_self = [rho |-> Frac(0, 1)]
    /\ dc_call = NoCall
    /\ dc_ret = NoCall

\* DixonColesModel(rho)
DcInit ==
    /\ dc_self \in [rho : DcRhos]
    /\ dc_call = NoCall
    /\ dc_ret = NoCall

DcCalculate(home_exp_goals, away_exp_goals, max_goals) ==
    /\ dc_ret = NoCall
    /\ dc_call' = [kind |-> "args", home_exp_goals |-> home_exp_goals,
                   away_exp_goals |-> away_exp_goals, max_goals |-> max_goals]
    /\ dc_ret' = calculate_match_probabilities(dc_self, home_exp_goals,
                                               away_exp_goals, max_goals)
    /\ UNCHANGED dc_self
    /\ DcFrame

DcNext ==
    \E home_exp_goals \in DcExpGoals, away_exp_goals \in DcExpGoals,
       max_goals \in DcMaxGoals :
          DcCalculate(home_exp_goals, away_exp_goals, max_goals)

(***************************************************************************)
(* Specifications                                                          *)
(***************************************************************************)

InitKelly == KellyInit /\ EdgeParked /\ BtParked /\ LedgerParked /\ RlParked /\ McParked /\ DcParked
NextKelly == KellyNext
SpecKelly == InitKelly /\ [][NextKelly]_vars

InitEdge == EdgeInit /\ KellyParked /\ BtParked /\ LedgerParked /\ RlParked /\ McParked /\ DcParked
NextEdge == EdgeNext
SpecEdge == InitEdge /\ [][NextEdge]_vars

InitBacktest == BtInit /\ KellyParked /\ EdgeParked /\ LedgerParked /\ RlParked /\ McParked /\ DcParked
NextBacktest == BtNext
SpecBacktest == InitBacktest /\ [][NextBacktest]_vars

Init == LedgerInit /\ KellyParked /\ EdgeParked /\ BtParked /\ RlParked /\ McParked /\ DcParked
Next == LedgerNext
Spec == Init /\ [][Next]_vars

InitRl == RlInit /\ KellyParked /\ EdgeParked /\ BtParked /\ LedgerParked /\ McParked /\ DcParked
NextRl == RlNext
SpecRl == InitRl /\ [][NextRl]_vars

InitMc == McInit /\ KellyParked /\ EdgeParked /\ BtParked /\ LedgerParked /\ RlParked /\ DcParked
NextMc == McNext
SpecMc == InitMc /\ [][NextMc]_vars

\* The ledger with a database that commits and a provider that answers,
\* and games that end.  Managers are built anew as in Spec; on one of them
\* (the first) check_results_and_learn is invoked again and again, on the
\* same object for as long as no new one is built in its place, and its
\* handlers run to their end.
PeriodicManager == CHOOSE m \in Managers : \A n \in Managers : m <= n

LiveNext ==
    \/ \E g \in Games, phase \in Phases : GameEnds(g, phase)
    \/ \E m \in Managers, w \in ManagerWeights : Construct(m, w)
    \/ \E m \in Managers, t \in Thresholds, b \in MaxBetsArgs : GenStart(m, t, b, {TRUE})
    \/ \E m \in Managers : GenPrice(m, {TRUE})
    \/ \E m \in Managers : GenSaveMatch(m, {"ok"})
    \/ \E m \in Managers : GenSaveDeep(m, {"ok"})
    \/ \E m \in Managers : GenPlaceBet(m, {"ok"})
    \/ \E m \in Managers : GenFinish(m)
    \/ \E m \in Managers : CheckStart(m, {"ok"})
    \/ \E m \in Managers : CheckAgain(m, {"ok"})
    \/ \E m \in Managers : CheckLookup(m, {TRUE})
    \/ \E m \in Managers : CheckSaveMatch(m, {"ok"})
    \/ \E m \in Managers : CheckResolve(m, {"ok"})
    \/ \E m \in Managers : CheckLearn(m, {"ok"})
    \/ \E m \in Managers : CheckFinish(m)

\* the steps of the periodic manager: at most one of its handlers' steps is
\* possible at a time
PeriodicStep ==
    \/ GenPrice(PeriodicManager, {TRUE})
    \/ GenSaveMatch(PeriodicManager, {"ok"})
    \/ GenSaveDeep(PeriodicManager, {"ok"})
    \/ GenPlaceBet(PeriodicManager, {"ok"})
    \/ GenFinish(PeriodicManager)
    \/ CheckStart(PeriodicManager, {"ok"})
    \/ CheckAgain(PeriodicManager, {"ok"})
    \/ CheckLookup(PeriodicManager, {TRUE})
    \/ CheckSaveMatch(PeriodicManager, {"ok"})
    \/ CheckResolve(PeriodicManager, {"ok"})
    \/ CheckLearn(PeriodicManager, {"ok"})
    \/ CheckFinish(PeriodicManager)

\* when a step of the periodic manager changes the state: inside a handler
\* always; between handlers, an invocation does unless it is one more
\* check_results_and_learn that finds nothing pending and returns (0, 0)
\* as the last one did
PeriodicEnabled ==
    \/ m_pc[PeriodicManager] # "idle"
    \/ invocations < MaxInvocations
    \/ get_pending_bets(db_bets, db_matches) # << >>
    \/ m_ret # [kind |-> "tuple", resolved |-> 0, learned |-> 0]

\* weak fairness of the provider's reports and of the periodic manager's
\* steps, the latter as WF_vars(PeriodicStep) with the enabling condition
\* written out
LiveFairness ==
    /\ WF_vars(\E g \in Games, phase \in Phases : GameEnds(g, phase))
    /\ ([]<>(~ PeriodicEnabled) \/ []<><<PeriodicStep>>_vars)

SpecLive == Init /\ [][LiveNext]_vars /\ LiveFairness

InitDc == DcInit /\ KellyParked /\ EdgeParked /\ BtParked /\ LedgerParked /\ RlParked /\ McParked
NextDc == DcNext
SpecDc == InitDc /\ [][NextDc]_vars

(***************************************************************************)
(* Claims about calculate_kelly_stake (SpecKelly)                          *)
(***************************************************************************)

KellyReturned == k_call.kind = "args" /\ k_ret.kind # "none"

\* a float read to two and to four decimals, as an integer of that unit
Cents(x) == RoundScaled(x, 2)
TenThousandths(x) == RoundScaled(x, 4)

\* the claim's raw Kelly fraction, written as expected value over net odds:
\* ((odds-1)p - (1-p)) / (odds-1) = (p*odds - 1) / (odds-1)
ClaimRaw(odds, prob) == Frac(prob * odds - OddsScale * ProbScale, (odds - OddsScale) * ProbScale)

\* half of it, clamped to [0, max_stake_pct]
ClaimClamped(odds, prob, max_stake_pct) ==
    LET half == FracMul(ClaimRaw(odds, prob), Frac(1, 2))
    IN  IF half.num < 0 THEN Frac(0, 1)
        ELSE IF half.num * ProbScale > max_stake_pct * half.den
             THEN Frac(max_stake_pct, ProbScale)
             ELSE half

\* the integer v is x scaled by k, to the nearest unit
NearestTo(v, k, x) ==
    LET g == Gcd(k, x.den)
    IN  2 * Abs(v * (x.den \div g) - (k \div g) * x.num) <= x.den \div g

\* C5: for odds > 1, a probability in [0,1] and a bankroll >= 0 the returned
\* stake fraction lies in [0, max_stake_pct] and the amount is never negative;
\* with a negative raw Kelly fraction (no edge) fraction and amount are 0.
C5_StakeWithinLimits ==
    (KellyReturned /\ k_call.odds > OddsScale) =>
        /\ k_ret.kind = "dict"
        /\ F64Leq(F64Zero, k_ret.percentage)
        /\ F64Leq(k_ret.percentage, F64Mul(k_call.max_stake_pct, F64Hundred))
        /\ F64Leq(F64Zero, k_ret.amount)
        /\ (k_call.prob * k_call.odds < OddsScale * ProbScale =>
                F64IsZero(k_ret.percentage) /\ F64IsZero(k_ret.amount))

C5_Witness ==
    /\ KellyReturned
    /\ k_call.odds > OddsScale
    /\ F64Lt(F64Zero, k_call.bankroll)
    /\ k_call.prob * k_call.odds < OddsScale * ProbScale
    /\ F64IsZero(k_ret.amount)

\* C6: for odds > 1 the call computes raw = ((odds-1)p - (1-p))/(odds-1),
\* halves it, clamps to [0, max_stake_pct] and returns amount = bankroll x
\* clamped fraction; the dict reports the amount to the cent, the fraction as
\* a percentage to two decimals and the raw fraction to four.
C6_HalfKellyClamped ==
    (KellyReturned /\ k_call.odds > OddsScale) =>
        LET raw     == ClaimRaw(k_call.odds, k_call.prob)
            clamped == ClaimClamped(k_call.odds, k_call.prob,
                                    TenThousandths(k_call.max_stake_pct))
        IN  /\ k_ret.kind = "dict"
            /\ NearestTo(TenThousandths(k_ret.raw_kelly), ProbScale, raw)
            /\ NearestTo(Cents(k_ret.percentage), 100 * 100, clamped)
            /\ NearestTo(Cents(k_ret.amount), TenThousandths(k_call.bankroll),
                         Frac(clamped.num, clamped.den * 100))
            /\ k_ret.raw_kelly = Float(TenThousandths(k_ret.raw_kelly), ProbScale)
            /\ k_ret.percentage = Float(Cents(k_ret.percentage), 100)
            /\ k_ret.amount = Float(Cents(k_ret.amount), 100)

\* odds 2.1, p 0.55, max 0.05, bankroll 1000 gives amount 50.00
C6_Witness ==
    /\ KellyReturned
    /\ k_call.odds = 210 /\ k_call.prob = 5500
    /\ k_call.bankroll = Float(1000, 1)
    /\ k_call.max_stake_pct = Float(5, 100)
    /\ k_ret.kind = "dict"
    /\ k_ret.amount = Float(50, 1)

\* C7: with odds <= 1 the call returns a zero stake of the same shape as for
\* valid odds: a dict whose fraction and amount are 0.
C7_ZeroStakeSameShape ==
    (KellyReturned /\ k_call.odds <= OddsScale) =>
        /\ k_ret.kind = "dict"
        /\ F64IsZero(k_ret.percentage)
        /\ F64IsZero(k_ret.amount)

(***************************************************************************)
(* Claims about the edge analysers (SpecEdge)                              *)
(***************************************************************************)

EdgeReturned == e_call.kind = "args" /\ e_edge.kind = "dict"

\* EV = p * o - 1 of an outcome, exact, in millionths
ClaimEV(o) == e_call.probs[o] * e_call.market_odds[o] - OddsScale * ProbScale

IsTrap(p, o, evLow) == p > 6500 /\ o < 125 /\ evLow
IsGold(p, evHigh)   == evHigh /\ p > 4000

\* C8: with EV = p*o - 1, market_status is RED_TRAP exactly when p > 0.65,
\* o < 1.25 and EV < -0.10, and otherwise GOLD_GLITCH exactly when EV > 0.20
\* and p > 0.40.
C8_TrapThenGoldExactEV ==
    EdgeReturned =>
        \A o \in DOMAIN e_call.market_odds :
            LET p    == e_call.probs[o]
                q    == e_call.market_odds[o]
                trap == IsTrap(p, q, ClaimEV(o) < -100000)
                gold == ~trap /\ IsGold(p, ClaimEV(o) > 200000)
            IN  /\ o \in DOMAIN e_edge.results
                /\ (e_edge.results[o].market_status = "RED_TRAP") <=> trap
                /\ (e_edge.results[o].market_status = "GOLD_GLITCH") <=> gold

\* C9: an outcome that is neither trap nor gold gets market_status VALUE
\* when EV > 0.05 and NORMAL otherwise.
C9_ValueStatus ==
    EdgeReturned =>
        \A o \in DOMAIN e_edge.results :
            LET st == e_edge.results[o].market_status
            IN  st \notin {"RED_TRAP", "GOLD_GLITCH"} =>
                    st = IF ClaimEV(o) > 50000 THEN "VALUE" ELSE "NORMAL"

\* C10: market odds <= 1 are rejected by both analysers: detect_edge gives no
\* entry for such an outcome and analyze_bet fails instead of returning an
\* assessment.
C10_LowOddsRejected ==
    /\ EdgeReturned =>
          \A o \in DOMAIN e_call.market_odds :
              e_call.market_odds[o] <= OddsScale => o \notin DOMAIN e_edge.results
    /\ (e_val.kind = "called" /\ e_call.market_odds[e_val.outcome] <= OddsScale) =>
          e_val.ret.kind = "raise"

(***************************************************************************)
(* Claims about Backtester.run_backtest                                    *)
(***************************************************************************)

\* the windows of the current run_backtest call whose pass of the window loop
\* is over
WindowsDone ==
    IF bt_loc.pc = "window"
    THEN 0 .. (Min(bt_loc.window_idx,
                   total_windows(bt_df.len, BtWindowSize, bt_loc.test_size)) - 1)
    ELSE IF bt_loc.pc = "score" THEN 0 .. (bt_loc.window_idx - 1)
    ELSE {}

\* the rows scored (handed to predict_match) in window w of the current call
RowsScored(w) == {s.row : s \in {t \in bt_scored : t.call = bt_calls /\ t.window = w}}

\* C3: in run_backtest, for every window w the training slice is exactly the
\* rows [w*test_size, w*test_size + window_size) and the rows scored in that
\* window are exactly the following test_size rows; no row at or after the
\* start of the test window is behind the model that scores it, and every
\* scored row lies inside the history.
C3_WindowsTrainThenScoreNext ==
    /\ \A s \in bt_scored :
          LET start == s.window * s.test_size
          IN  /\ s.team_stats = start .. (start + BtWindowSize - 1)
              /\ \A j \in s.team_stats : j < start + BtWindowSize
              /\ s.row >= start + BtWindowSize
              /\ s.row < start + BtWindowSize + s.test_size
              /\ s.row < bt_df.len
    /\ \A w \in WindowsDone :
          RowsScored(w) = (w * bt_loc.test_size + BtWindowSize) ..
                          (w * bt_loc.test_size + BtWindowSize + bt_loc.test_size - 1)

\* C4: at every calculate_kelly_stake call of run_backtest the manager's
\* bankroll equals the run's current bankroll (1000 at the start of the run,
\* then moved by every earlier bet of the run), on a first call and on a
\* repeated call of run_backtest on the same Backtester.
C4_KellyOnRunningBankroll ==
    bt_kelly.kind = "call" =>
        F64Eq(bt_kelly.manager_bankroll, bt_kelly.running_bankroll)

(***************************************************************************)
(* Claims about the bet ledger                                             *)
(***************************************************************************)

Terminal(status) == status \in {"WON", "LOST"}

\* what one step may do to bets_history under C1
LifecycleStep ==
    /\ Len(db_bets') >= Len(db_bets)
    /\ \A i \in 1 .. Len(db_bets') :
          IF i > Len(db_bets)
          THEN db_bets'[i].status = "PENDING" /\ F64IsZero(db_bets'[i].pnl)
          ELSE /\ db_bets'[i].status # db_bets[i].status
                  => /\ db_bets[i].status = "PENDING"
                     /\ Terminal(db_bets'[i].status)
                     /\ p_game[db_bets[i].game_id] # Scheduled
               /\ Terminal(db_bets[i].status)
                  => /\ db_bets'[i].status = db_bets[i].status
                     /\ db_bets'[i].pnl = db_bets[i].pnl
               /\ db_bets'[i].status = "PENDING" => F64IsZero(db_bets'[i].pnl)

\* C1: over any interleaving of generate_daily_bets and
\* check_results_and_learn invocations, every bet starts PENDING with pnl 0,
\* its status changes at most once, to WON or LOST and only when the result
\* of its fixture is known, and a terminal status and its pnl never change.
C1_BetLifecycle == [][LifecycleStep]_vars

\* a resolved bet that another invocation, holding it in its snapshot of
\* the pending bets, is about to resolve a second time
C1_Witness ==
    \E m \in Managers :
        /\ m_pc[m] = "check_resolve"
        /\ Terminal(db_bets[m_loc[m].pending[m_loc[m].i].bet_id].status)
        /\ ~ F64IsZero(db_bets[m_loc[m].pending[m_loc[m].i].bet_id].pnl)

\* C2: a bet is marked learned exactly when its outcome has been fed to
\* train_step, no outcome is fed more than once, and every bet that has
\* reached WON or LOST has been fed once and is marked learned.
C2_LearnedIffTrainedOnce ==
    \A i \in 1 .. Len(db_bets) :
        /\ db_bets[i].learned <=> i \in DOMAIN fed
        /\ i \in DOMAIN fed => fed[i] = 1
        /\ Terminal(db_bets[i].status) => db_bets[i].learned /\ i \in DOMAIN fed

(***************************************************************************)
(* Claims about RLEngine (SpecRl)                                          *)
(***************************************************************************)

\* the state the claims call the model state
ModelState(e) ==
    [weights |-> e.weights, num_batches_tracked |-> e.num_batches_tracked,
     opt_steps |-> e.opt_steps, sched_steps |-> e.sched_steps,
     training_history |-> e.training_history,
     total_steps |-> get_model_metrics(e).total_steps, memory |-> e.memory]

\* this step is a call of one of the operations in ops
RlCalled(ops) == rl_calls' = rl_calls + 1 /\ rl_ret'.op \in ops

TrainingOps == {"train_step", "train_on_batch", "experience_replay"}

\* C11: total_steps of get_model_metrics never decreases while the engine
\* lives, and every train_step, train_on_batch or replayed train_on_batch
\* call that returns a loss increases it by exactly one.
C11_StepCounterCountsTrainingCalls ==
    [][ /\ (rl_pc = "idle" /\ rl_pc' # "down") =>
              get_model_metrics(rl_eng').total_steps
                  >= get_model_metrics(rl_eng).total_steps
        /\ (RlCalled(TrainingOps) /\ rl_ret'.kind = "float") =>
              get_model_metrics(rl_eng').total_steps
                  = get_model_metrics(rl_eng).total_steps + 1 ]_vars

\* C12: a train_step call with one 14-element feature vector and a target in
\* {0, 1, 2} returns a loss, makes exactly one optimizer update, and adds one
\* entry to training_history and one example to memory.
C12_TrainStepSingleExample ==
    [][ (RlCalled({"train_step"}) /\ rl_ret'.target_idx \in ValidTargets) =>
            /\ rl_ret'.kind = "float"
            /\ rl_eng'.opt_steps = rl_eng.opt_steps + 1
            /\ rl_eng'.training_history = rl_eng.training_history + 1
            /\ rl_eng'.memory = rl_eng.memory + 1 ]_vars

\* C13: a train_step call with a target outside {0, 1, 2} does not raise; it
\* ends with the error outcome InvalidTarget and leaves weights, optimizer
\* state, loss history, step counter and replay memory as they were.
C13_InvalidTargetRejected ==
    [][ (RlCalled({"train_step"}) /\ rl_ret'.target_idx \notin ValidTargets) =>
            /\ rl_ret'.kind = "error"
            /\ rl_ret'.value = "InvalidTarget"
            /\ ModelState(rl_eng') = ModelState(rl_eng) ]_vars

\* C14: a predict call returns a probability triple and leaves weights,
\* optimizer state, loss history, step counter and replay memory unchanged;
\* it returns what every earlier predict call on the same features returned
\* since the last training call, whatever calls came before.
C14_PredictIsPure ==
    [][ RlCalled({"predict"}) =>
            /\ rl_ret'.kind = "probs"
            /\ ModelState(rl_eng') = ModelState(rl_eng)
            /\ \A i \in 1 .. Len(rl_seen) :
                  rl_seen[i].features = rl_ret'.features =>
                      /\ rl_seen[i].kind = "probs"
                      /\ rl_seen[i].value = rl_ret'.value ]_vars

\* two predict calls on the same features after a completed train_on_batch
C14_Witness ==
    /\ rl_ret.op = "predict"
    /\ rl_eng.sched_steps > 0
    /\ Len(rl_seen) = 2
    /\ rl_seen[1].features = rl_seen[2].features
    /\ rl_seen[1].kind = "probs"

\* C15: at every moment, a crash or a failed write during save_model
\* included, the file at MODEL_PATH is absent or a complete snapshot (the
\* previous one or the new one), never a partly written one.
C15_SnapshotAtomic == rl_file.kind # "partial"

\* C16: when _load_model fails, at whichever step, the constructed engine is
\* the fresh one: weights, optimizer state and loss history are those
\* __init__ created, with nothing of the snapshot kept.
C16_FailedLoadIsFresh ==
    (rl_ret.op = "__init__" /\ rl_ret.load = "failed") => rl_eng = rl_ret.fresh

(***************************************************************************)
(* Claims about ValueSimulator.run_monte_carlo (SpecMc)                    *)
(***************************************************************************)

InPath == mc_loc.pc \in {"bet", "endpath"}
LastOf(path) == path[Len(path)]
\* a bankroll under the floor of one unit
BelowOne(bank) == bank.num < bank.den
RuinedFinals(results) == {i \in 1 .. Len(results) : BelowOne(results[i])}

\* C17: within a path no bet is applied once the bankroll is below 1; the
\* path ends at that bet with that bankroll as its final bankroll and adds
\* one to the ruin count, so the ruin count is the number of paths that
\* ended below 1 and is at most the number of paths.
C17_PathStopsAtRuin ==
    /\ InPath =>
          /\ \A i \in 1 .. (Len(mc_loc.path) - 1) : ~ BelowOne(mc_loc.path[i])
          /\ LastOf(mc_loc.path) = mc_loc.current_bank
          /\ Len(mc_loc.path) = Len(mc_loc.path_returns) + 1
          /\ mc_loc.pc = "bet" => ~ BelowOne(mc_loc.current_bank)
    /\ mc_loc.pc # "idle" =>
          /\ mc_loc.ruin_count =
                Cardinality(RuinedFinals(mc_loc.results))
                + (IF mc_loc.pc = "endpath" /\ BelowOne(LastOf(mc_loc.path))
                   THEN 1 ELSE 0)
          /\ Len(mc_loc.results) = mc_loc.iteration
          /\ mc_loc.ruin_count <= mc_self.iterations
    /\ mc_ret.kind = "dict" =>
          /\ mc_ret.ruin_count = Cardinality(RuinedFinals(mc_ret.results))
          /\ mc_ret.ruin_count <= mc_ret.iterations
          /\ Len(mc_ret.results) = mc_ret.iterations

\* C18: for the odds, number of bets and initial bankroll of a run, a path
\* that is ruined with stake percentage s1 is ruined, on the same outcome
\* vector, with every stake percentage s2 >= s1.
C18_RuinMonotoneInStake ==
    mc_loc.pc = "endpath" =>
        LET start == << mc_self.bankroll_start >>
            run(s) == RunPath(start, s, mc_loc.odds, mc_loc.outcomes, 1)
        IN  /\ run(mc_loc.stake_pct) = mc_loc.path
            /\ BelowOne(LastOf(mc_loc.path)) =>
                  \A s2 \in McStakePcts :
                      s2 >= mc_loc.stake_pct => BelowOne(LastOf(run(s2)))

(***************************************************************************)
(* Claims about the returns and the unfitted windows of run_backtest       *)
(***************************************************************************)

\* C19: every bet placed records the return profit / (bankroll right before
\* the bet), whatever that bankroll is, in the overall list and in the list
\* of its market; the overall list is as long as the three market lists
\* together and as the ledger.
\* two floats that differ by less than 1e-9
CloseTo(x, y) == F64Lt(F64Abs(F64Sub(x, y)), Float(1, 10 ^ 9))

C19_ReturnOverBankrollBefore ==
    bt_loc.pc # "idle" =>
        /\ Len(bt_loc.returns) = Len(bt_loc.history)
        /\ Len(bt_loc.returns) = Len(bt_loc.market_returns["1"])
                                 + Len(bt_loc.market_returns["X"])
                                 + Len(bt_loc.market_returns["2"])
        /\ (bt_kelly.kind = "call" /\ bt_kelly.call = bt_calls /\ bt_kelly.placed) =>
              LET market == bt_loc.history[Len(bt_loc.history)].Market
                  claimed == F64Div(bt_kelly.profit, bt_kelly.running_bankroll)
              IN  /\ ~ F64IsZero(bt_kelly.running_bankroll)
                  /\ CloseTo(LastOf(bt_loc.returns), claimed)
                  /\ CloseTo(LastOf(bt_loc.market_returns[market]), claimed)

\* C20: every bet of the ledger was priced by a model fitted on its window:
\* a window whose training raised or whose slice was too small to fit
\* produces no bet, and no bet is placed on the neutral probabilities of an
\* unfitted model.
C20_NoBetFromUnfittedWindow ==
    bt_loc.pc # "idle" =>
        \A i \in 1 .. Len(bt_loc.history) :
            \E s \in bt_scored :
                /\ s.call = bt_calls
                /\ s.window = bt_loc.history[i].Window
                /\ s.row = bt_loc.history[i].Match
                /\ s.is_trained


\* C21: a run_backtest call returns a ledger that is None exactly when the
\* history has fewer than window_size + test_size fixtures; every other
\* return carries a (possibly empty) ledger together with the final
\* bankroll, and the caller test_integration unpacks what is returned as
\* the pair (results, bankroll).
C21_LedgerAndBankrollPair ==
    [][ /\ \A test_size \in BtTestSizes :
              (BtRunBacktest(test_size) /\ bt_df.len < BtWindowSize + test_size)
              => /\ bt_ret'.kind = "tuple"
                 /\ bt_ret'.items[1].type = "NoneType"
                 /\ test_integration(bt_ret').kind = "pair"
        /\ BtReturn
              => /\ bt_ret'.kind = "tuple"
                 /\ bt_ret'.items[1].type = "DataFrame"
                 /\ test_integration(bt_ret').kind = "pair"
                 /\ test_integration(bt_ret').bankroll = round(bt_loc.bankroll, 2) ]_vars


\* C22: for expected goals >= 0 and rho in [-0.5, 0.5],
\* calculate_match_probabilities returns (never NaN) three probabilities,
\* each non-negative, that sum to 1 within 1e-6.
C22_ProbabilitiesNonNegativeSumOne ==
    dc_ret # NoCall =>
       /\ dc_ret.kind = "dict"
       /\ \A o \in Outcomes : dc_ret.probs[o] >= 0
       /\ dc_ret.probs["1"] + dc_ret.probs["X"] + dc_ret.probs["2"] = ProbScale


\* C24: every feature vector handed to predict or train_step, whether built
\* by build_anonymous_features or by generate_daily_bets, has exactly 14
\* elements, and its elements 6 to 13 (counted from 0) lie in [0, 1].
C24_FeatureVectorShapeAndRange ==
    rl_ret.op \in {"predict", "train_step"} =>
       /\ Len(rl_ret.features) = 14
       /\ \A i \in 7 .. 14 : /\ F64Leq(F64Zero, rl_ret.features[i])
                             /\ F64Leq(rl_ret.features[i], F64One)


\* C26: the count generate_daily_bets returns is the number of bet records
\* the call created, and it never exceeds max_bets; a bet whose insert (or
\* whose match record's insert) failed is not counted.
C26_CountIsBetsCreated ==
    [][ \A m \in Managers :
           GenFinish(m) =>
              /\ m_ret'.kind = "int"
              /\ m_ret'.bets_placed = m_loc[m].created
              /\ m_ret'.bets_placed <= m_loc[m].max_bets ]_vars


\* C27: the feature vector a resolved bet is trained on equals, element by
\* element, the vector handed to predict when the bet was generated: what
\* generate_daily_bets stores and check_results_and_learn reads back is the
\* same 14 numbers.
C27_TrainedOnPredictedFeatures ==
    \A t \in nn_inputs :
       t.op = "train_step" =>
          \E q \in nn_inputs :
             /\ q.op = "predict"
             /\ q.game_id = t.game_id
             /\ q.features = t.features


\* C28: every PENDING bet whose fixture has ended is eventually resolved
\* (WON or LOST) when check_results_and_learn is invoked again and again on
\* the same manager and the provider reports the fixture as ended, also when
\* an earlier invocation asked about the fixture before it ended.
\* (Bets are not deleted, a resolved bet stays resolved and an ended fixture
\* stays ended: the bets that are pending on an ended fixture are all
\* resolved in the end exactly when, from any state with such a bet, a state
\* without one is reached.)
PendingOnEnded ==
    { b \in 1 .. Len(db_bets) :
         db_bets[b].status = "PENDING" /\ p_game[db_bets[b].game_id] = Ended }

C28_EndedBetEventuallyResolved ==
    (PendingOnEnded # {}) ~> (PendingOnEnded = {})


\* C29: the two analysers agree: for a probability in [0, 1] and odds above
\* 1, analyze_bet's is_value equals the is_value detect_edge reports for the
\* outcome, both being true exactly when prob * odds - 1 > 0.05; an outcome
\* flagged RED_TRAP is never is_value and one flagged GOLD_GLITCH always is.
C29_AnalysersAgree ==
    (/\ e_edge.kind = "dict"
     /\ e_val.kind = "called"
     /\ e_call.market_odds[e_val.outcome] > OddsScale)
    => LET entry == e_edge.results[e_val.outcome]
           ev    == e_call.probs[e_val.outcome] * e_call.market_odds[e_val.outcome]
                       - OddsScale * ProbScale
       IN  /\ e_val.ret.kind = "dict"
           /\ e_val.ret.is_value = entry.is_value
           /\ entry.is_value = (ev > 50000)
           /\ entry.market_status = "RED_TRAP" => ~ entry.is_value
           /\ entry.market_status = "GOLD_GLITCH" => entry.is_value

(***************************************************************************)
(* Claim about the drawdown reported by run_monte_carlo                    *)
(***************************************************************************)

\* the largest fall of a path from its running peak, as a percentage of
\* that peak
PeakBefore(path, j) ==
    CHOOSE i \in 1 .. j : \A k \in 1 .. j : ~ FracLt(path[i], path[k])
FallAt(path, j) ==
    LET peak == path[PeakBefore(path, j)]
    IN  FracMul(FracAdd(peak, FracNeg(path[j])), Frac(100 * peak.den, peak.num))
MaxDrawdown(path) ==
    LET j == CHOOSE j \in 1 .. Len(path) :
                \A k \in 1 .. Len(path) : ~ FracLt(FallAt(path, j), FallAt(path, k))
    IN  FallAt(path, j)
MeanMaxDrawdown(paths) ==
    FracMul(FracSum([i \in 1 .. Len(paths) |-> MaxDrawdown(paths[i])]),
            Frac(1, Len(paths)))

\* C30: the max_drawdown_avg of the report is the average over the paths of
\* each path's maximum drawdown from its running peak bankroll (rounded to
\* two decimals); a path that rises above the initial bankroll, falls back
\* and ends at or above the initial bankroll contributes a positive drawdown.
C30_DrawdownFromRunningPeak ==
    mc_ret.kind = "dict" =>
        LET mean == MeanMaxDrawdown(mc_ret.paths)
        IN  mc_ret.max_drawdown_avg = RoundRatio(mean.num * 100, mean.den)

=============================================================================
